---- MODULE Spec2Model ----
(***************************************************************************)
(* Verification model of kitsune-wallpaperengine.                          *)
(*                                                                         *)
(* Part 1: the visibility mini-language of scene_gpu_graph.rs              *)
(* Part 2: the effect-graph builder build_scene_gpu_graph                  *)
(* Part 3: the gpu-play orchestration of child processes and PID files     *)
(*                                                                         *)
(* Strings are sequences of one-character strings, so that the code's      *)
(* slicing, trimming and searching are modelled character by character.    *)
(***************************************************************************)
EXTENDS Integers, Sequences, FiniteSets, TLC

(***************************************************************************)
(* Option / Result encodings.                                              *)
(***************************************************************************)
NoneV == [t |-> "none"]
PanicV == [t |-> "panic"]
BoolV(b) == [t |-> "bool", b |-> b]
NumV(n, isFloat) == [t |-> "num", n |-> n, f |-> isFloat]
StrV(s) == [t |-> "str", s |-> s]

\* Option<bool> is one of "true", "false", "none"; "panic" is the outcome of a
\* Rust slice-index failure.
SomeBool(b) == IF b THEN "true" ELSE "false"

(***************************************************************************)
(* str primitives (Rust core::str), over sequences of characters.          *)
(***************************************************************************)

SubStr(s, from, to) == [i \in 1..(to - from + 1) |-> s[from + i - 1]]

DropFirst(s, n) == SubStr(s, n + 1, Len(s))

TakeFirst(s, n) == SubStr(s, 1, n)

StartsWith(s, p) == Len(s) >= Len(p) /\ TakeFirst(s, Len(p)) = p

EndsWith(s, p) == Len(s) >= Len(p) /\ DropFirst(s, Len(s) - Len(p)) = p

RECURSIVE TrimStartSet(_, _)
TrimStartSet(s, cs) ==
    IF Len(s) > 0 /\ s[1] \in cs THEN TrimStartSet(Tail(s), cs) ELSE s

RECURSIVE TrimEndSet(_, _)
TrimEndSet(s, cs) ==
    IF Len(s) > 0 /\ s[Len(s)] \in cs
    THEN TrimEndSet(TakeFirst(s, Len(s) - 1), cs)
    ELSE s

\* str::trim
Trim(s) == TrimEndSet(TrimStartSet(s, {" "}), {" "})

\* str::trim_matches(char)
TrimMatches(s, c) == TrimEndSet(TrimStartSet(s, {c}), {c})

\* str::trim_end_matches(&str): strips the suffix repeatedly
RECURSIVE TrimEndMatches(_, _)
TrimEndMatches(s, suffix) ==
    IF Len(suffix) > 0 /\ EndsWith(s, suffix)
    THEN TrimEndMatches(TakeFirst(s, Len(s) - Len(suffix)), suffix)
    ELSE s

\* str::find(&str): byte offset (0-based) of the first match, or -1
Find(s, pat) ==
    LET hits == {i \in 0..(Len(s) - Len(pat)) : SubStr(s, i + 1, i + Len(pat)) = pat}
    IN IF hits = {} THEN -1 ELSE CHOOSE i \in hits : \A j \in hits : i <= j

\* str::to_ascii_lowercase, for the letters of the literals compared below
LowerChar(c) ==
    CASE c = "T" -> "t" [] c = "R" -> "r" [] c = "U" -> "u" [] c = "E" -> "e"
      [] c = "F" -> "f" [] c = "A" -> "a" [] c = "L" -> "l" [] c = "S" -> "s"
      [] OTHER -> c

EqIgnoreAsciiCase(s, lit) ==
    Len(s) = Len(lit) /\ \A i \in 1..Len(s) : LowerChar(s[i]) = LowerChar(lit[i])

Digits == <<"0", "1", "2", "3", "4", "5", "6", "7", "8", "9">>

RECURSIVE DecValue(_)
DecValue(s) ==
    IF Len(s) = 0 THEN 0
    ELSE 10 * DecValue(TakeFirst(s, Len(s) - 1)) + (CHOOSE d \in 0..9 : Digits[d + 1] = s[Len(s)])

\* str::parse::<f64>() restricted to the inputs the model feeds it: plain
\* unsigned decimal digit strings parse, anything holding another character of
\* the model's alphabet does not (no sign, point, exponent, "inf" or "nan" can
\* be formed as a whole operand from the atoms of the model).
ParseF64(s) ==
    IF Len(s) > 0 /\ \A i \in 1..Len(s) : \E d \in 1..10 : Digits[d] = s[i]
    THEN DecValue(s) ELSE -1

RECURSIVE DecString(_)
DecString(n) ==
    IF n < 10 THEN <<Digits[n + 1]>>
    ELSE Append(DecString(n \div 10), Digits[(n % 10) + 1])



(***************************************************************************)
(* Part 1. Visibility predicates (scene_gpu_graph.rs).                     *)
(***************************************************************************)

\* BTreeMap::get on the User Property Map
UserGet(user_values, key) ==
    IF key \in DOMAIN user_values THEN user_values[key] ELSE NoneV

\* parse_visible_operand, lines 114-132, on the trimmed token t: Option<Value>,
\* or a panic when t is a lone quote character (the slice t[1..t.len() - 1]
\* then has start 1 > end 0).
ParseTrimmedOperand(t, user_values) ==
    IF Len(t) = 0 THEN NoneV
    ELSE IF EqIgnoreAsciiCase(t, <<"t", "r", "u", "e">>) THEN BoolV(TRUE)
    ELSE IF EqIgnoreAsciiCase(t, <<"f", "a", "l", "s", "e">>) THEN BoolV(FALSE)
    ELSE IF \/ (t[1] = "'" /\ t[Len(t)] = "'")
            \/ (t[1] = "\"" /\ t[Len(t)] = "\"")
         THEN IF Len(t) < 2 THEN PanicV ELSE StrV(SubStr(t, 2, Len(t) - 1))
    ELSE IF ParseF64(t) >= 0 THEN NumV(ParseF64(t), TRUE)
    ELSE UserGet(user_values, TrimEndMatches(t, <<".", "v", "a", "l", "u", "e">>))

\* parse_visible_operand
ParseVisibleOperand(token, user_values) ==
    ParseTrimmedOperand(TrimMatches(TrimMatches(Trim(token), "("), ")"), user_values)

\* value_as_f64: -1 stands for None (the model has no negative numbers)
ValueAsF64(v) ==
    CASE v.t = "num" -> v.n
      [] v.t = "str" -> ParseF64(v.s)
      [] v.t = "bool" -> IF v.b THEN 1 ELSE 0
      [] OTHER -> -1

\* value_as_str
ValueAsStr(v) ==
    CASE v.t = "str" -> StrV(Trim(v.s))
      \* serde_json Number::to_string: an f64-backed number prints with ".0",
      \* an integer-backed number prints bare
      [] v.t = "num" -> StrV(IF v.f THEN DecString(v.n) \o <<".", "0">> ELSE DecString(v.n))
      [] v.t = "bool" -> StrV(IF v.b THEN <<"t", "r", "u", "e">> ELSE <<"f", "a", "l", "s", "e">>)
      [] OTHER -> NoneV

\* loosely_equal on the coerced operands; on the model's integers
\* |a - b| < 1e-6 is a = b
LooselyEqualCoerced(left, right, a, b, l, r) ==
    IF a >= 0 /\ b >= 0 THEN a = b
    ELSE IF l # NoneV /\ r # NoneV THEN l = r
    ELSE left = right

\* loosely_equal
LooselyEqual(left, right) ==
    LooselyEqualCoerced(left, right, ValueAsF64(left), ValueAsF64(right),
                        ValueAsStr(left), ValueAsStr(right))

StringHelperMarkers ==
    << [marker |-> <<".", "c", "o", "n", "t", "a", "i", "n", "s", "(">>, kind |-> "contains"],
       [marker |-> <<".", "s", "t", "a", "r", "t", "s", "W", "i", "t", "h", "(">>, kind |-> "startswith"],
       [marker |-> <<".", "s", "t", "a", "r", "t", "s", "w", "i", "t", "h", "(">>, kind |-> "startswith"],
       [marker |-> <<".", "e", "n", "d", "s", "W", "i", "t", "h", "(">>, kind |-> "endswith"],
       [marker |-> <<".", "e", "n", "d", "s", "w", "i", "t", "h", "(">>, kind |-> "endswith"] >>

ComparisonOps ==
    << <<"=", "=">>, <<"!", "=">>, <<">", "=">>, <<"<", "=">>, <<">">>, <<"<">> >>

\* lines 197-205: the helper applied to the two operands as strings
StringHelperOnStrings(kind, l, r) ==
    IF l = NoneV \/ r = NoneV THEN "none"
    ELSE CASE kind = "contains" -> SomeBool(Find(l.s, r.s) >= 0)
           [] kind = "startswith" -> SomeBool(StartsWith(l.s, r.s))
           [] kind = "endswith" -> SomeBool(EndsWith(l.s, r.s))

\* lines 195-205: the `?` on each operand in turn, then the helper
StringHelperOnOperands(kind, left, right) ==
    IF left = PanicV THEN "panic"
    ELSE IF left = NoneV THEN "none"
    ELSE IF right = PanicV THEN "panic"
    ELSE IF right = NoneV THEN "none"
    ELSE StringHelperOnStrings(kind, ValueAsStr(left), ValueAsStr(right))

\* lines 190-206: the string-helper branch of eval_visible_predicate for the
\* marker found at offset idx
EvalStringHelper(e, m, idx, user_values) ==
    StringHelperOnOperands(
        m.kind,
        ParseVisibleOperand(TakeFirst(e, idx), user_values),
        ParseVisibleOperand(SubStr(e, idx + Len(m.marker) + 1, Len(e) - 1), user_values))

\* lines 217-220: the ordering comparisons on the operands as numbers
OrderingOnNumbers(op, a, b) ==
    IF a < 0 \/ b < 0 THEN "none"
    ELSE CASE op = <<">", "=">> -> SomeBool(a >= b)
           [] op = <<"<", "=">> -> SomeBool(a <= b)
           [] op = <<">">> -> SomeBool(a > b)
           [] op = <<"<">> -> SomeBool(a < b)

\* lines 212-222: the `?` on each operand in turn, then the comparison
ComparisonOnOperands(op, left, right) ==
    IF left = PanicV THEN "panic"
    ELSE IF left = NoneV THEN "none"
    ELSE IF right = PanicV THEN "panic"
    ELSE IF right = NoneV THEN "none"
    ELSE IF op = <<"=", "=">> THEN SomeBool(LooselyEqual(left, right))
    ELSE IF op = <<"!", "=">> THEN SomeBool(~LooselyEqual(left, right))
    ELSE OrderingOnNumbers(op, ValueAsF64(left), ValueAsF64(right))

\* lines 211-223: the comparison branch of eval_visible_predicate for the
\* operator found at offset idx
EvalComparison(e, op, idx, user_values) ==
    ComparisonOnOperands(
        op,
        ParseVisibleOperand(TakeFirst(e, idx), user_values),
        ParseVisibleOperand(DropFirst(e, idx + Len(op)), user_values))

\* lines 228-235: the truthiness of a bare identifier's value
Truthy(v) ==
    CASE v.t = "bool" -> v.b
      [] v.t = "num" -> v.n # 0
      [] v.t = "str" -> /\ Len(Trim(v.s)) > 0
                        /\ v.s # <<"0">>
                        /\ ~EqIgnoreAsciiCase(v.s, <<"f", "a", "l", "s", "e">>)
      [] OTHER -> FALSE

\* lines 226-237: the bare-identifier branch
EvalIdentifier(v) == IF v # NoneV THEN SomeBool(Truthy(v)) ELSE "none"

MinOf(S) == CHOOSE i \in S : \A j \in S : i <= j

\* lines 183-237: the branches of eval_visible_predicate on the trimmed e;
\* helpers and ops are the markers and operators that occur in e
EvalPredicateBranches(e, helpers, ops, user_values) ==
    IF helpers # {}
    THEN EvalStringHelper(e, StringHelperMarkers[MinOf(helpers)],
                          Find(e, StringHelperMarkers[MinOf(helpers)].marker), user_values)
    ELSE IF ops # {}
    THEN EvalComparison(e, ComparisonOps[MinOf(ops)],
                        Find(e, ComparisonOps[MinOf(ops)]), user_values)
    ELSE EvalIdentifier(UserGet(user_values, TrimEndMatches(e, <<".", "v", "a", "l", "u", "e">>)))

\* lines 168-237: eval_visible_predicate on the trimmed e
EvalTrimmedPredicate(e, user_values) ==
    IF Len(e) = 0 THEN "none"
    ELSE IF e = <<"1">> THEN "true"
    ELSE IF e = <<"0">> THEN "false"
    ELSE EvalPredicateBranches(
             e,
             {i \in 1..Len(StringHelperMarkers) :
                 Find(e, StringHelperMarkers[i].marker) >= 0 /\ EndsWith(e, <<")">>)},
             {i \in 1..Len(ComparisonOps) : Find(e, ComparisonOps[i]) >= 0},
             user_values)

\* eval_visible_predicate
EvalVisiblePredicate(expr, user_values) == EvalTrimmedPredicate(Trim(expr), user_values)

\* the scan loop of trim_outer_parens: the 1-based index of the ')' that brings
\* the depth back to 0 for the first time, 0 when there is none
RECURSIVE OuterCloseIndex(_, _, _, _, _)
OuterCloseIndex(t, i, depth, in_sq, in_dq) ==
    IF i > Len(t) THEN 0
    ELSE IF t[i] = "'" /\ ~in_dq THEN OuterCloseIndex(t, i + 1, depth, ~in_sq, in_dq)
    ELSE IF t[i] = "\"" /\ ~in_sq THEN OuterCloseIndex(t, i + 1, depth, in_sq, ~in_dq)
    ELSE IF t[i] = "(" /\ ~in_sq /\ ~in_dq
         THEN OuterCloseIndex(t, i + 1, depth + 1, in_sq, in_dq)
    ELSE IF t[i] = ")" /\ ~in_sq /\ ~in_dq
         THEN IF depth - 1 = 0 THEN i
              ELSE OuterCloseIndex(t, i + 1, depth - 1, in_sq, in_dq)
    ELSE OuterCloseIndex(t, i + 1, depth, in_sq, in_dq)

\* trim_outer_parens on the trimmed t
RECURSIVE TrimOuterParensTrimmed(_)
TrimOuterParensTrimmed(t) ==
    IF ~(StartsWith(t, <<"(">>) /\ EndsWith(t, <<")">>)) THEN t
    ELSE IF OuterCloseIndex(t, 1, 0, FALSE, FALSE) = Len(t)
         THEN TrimOuterParensTrimmed(Trim(SubStr(t, 2, Len(t) - 1)))
    ELSE t

\* trim_outer_parens
TrimOuterParens(expr) == TrimOuterParensTrimmed(Trim(expr))

\* lines 283-290: the quote and depth state after the character ch
ScanQuoteSq(ch, in_sq, in_dq) == IF ch = "'" /\ ~in_dq THEN ~in_sq ELSE in_sq

ScanQuoteDq(ch, in_sq, in_dq) ==
    IF ~(ch = "'" /\ ~in_dq) /\ ch = "\"" /\ ~in_sq THEN ~in_dq ELSE in_dq

ScanDepth(ch, depth, in_sq, in_dq) ==
    IF (ch = "'" /\ ~in_dq) \/ (ch = "\"" /\ ~in_sq) THEN depth
    ELSE IF ch = "(" /\ ~in_sq /\ ~in_dq THEN depth + 1
    ELSE IF ch = ")" /\ ~in_sq /\ ~in_dq THEN depth - 1
    ELSE depth

\* the scan loop of find_top_level_op at 0-based position i, with the state
\* already updated for the character at i: the 0-based offset of the first
\* top-level occurrence of the two-character op, or -1
RECURSIVE TopLevelScan(_, _, _, _, _, _)
TopLevelScan(bytes, op, i, depth, in_sq, in_dq) ==
    IF ~in_sq /\ ~in_dq /\ depth = 0 /\ bytes[i + 1] = op[1] /\ bytes[i + 2] = op[2]
    THEN i
    ELSE IF ~(i + 2 < Len(bytes)) THEN -1
    ELSE TopLevelScan(bytes, op, i + 1,
                      ScanDepth(bytes[i + 2], depth, in_sq, in_dq),
                      ScanQuoteSq(bytes[i + 2], in_sq, in_dq),
                      ScanQuoteDq(bytes[i + 2], in_sq, in_dq))

\* find_top_level_op
FindTopLevelOp(expr, op) ==
    IF Len(op) # 2 \/ Len(expr) < 2 THEN -1
    ELSE TopLevelScan(expr, op, 0,
                      ScanDepth(expr[1], 0, FALSE, FALSE),
                      ScanQuoteSq(expr[1], FALSE, FALSE),
                      ScanQuoteDq(expr[1], FALSE, FALSE))

\* the `while e.starts_with('!')` loop of eval_visible_expr: <<negate, e>>
RECURSIVE StripNegations(_, _)
StripNegations(e, negate) ==
    IF StartsWith(e, <<"!">>)
    THEN StripNegations(TrimOuterParens(Trim(Tail(e))), ~negate)
    ELSE <<negate, e>>


\* line 336: base.map(|v| if negate { !v } else { v })
NegateOpt(r, negate) ==
    IF negate /\ r = "true" THEN "false"
    ELSE IF negate /\ r = "false" THEN "true"
    ELSE r

\* lines 321-324: left.unwrap_or(false) || right.unwrap_or(false); the right
\* side is evaluated only when the left side is not true
OrResult(left, right) ==
    IF left = "panic" THEN "panic"
    ELSE IF left = "true" THEN "true"
    ELSE IF right = "panic" THEN "panic"
    ELSE SomeBool(right = "true")

\* lines 328-331: left.unwrap_or(false) && right.unwrap_or(false); the right
\* side is evaluated only when the left side is true
AndResult(left, right) ==
    IF left = "panic" THEN "panic"
    ELSE IF left # "true" THEN "false"
    ELSE IF right = "panic" THEN "panic"
    ELSE SomeBool(right = "true")

RECURSIVE EvalVisibleExpr(_, _)

\* lines 318-334: `base`, for the top-level "||" and "&&" offsets found in e
EvalConnective(e, orIdx, andIdx, user_values) ==
    IF orIdx >= 0
    THEN OrResult(EvalVisibleExpr(TakeFirst(e, orIdx), user_values),
                  EvalVisibleExpr(DropFirst(e, orIdx + 2), user_values))
    ELSE IF andIdx >= 0
    THEN AndResult(EvalVisibleExpr(TakeFirst(e, andIdx), user_values),
                   EvalVisibleExpr(DropFirst(e, andIdx + 2), user_values))
    ELSE EvalVisiblePredicate(e, user_values)

\* lines 314-336, for st = <<negate, e>> left by the negation loop
EvalStripped(st, user_values) ==
    IF Len(st[2]) = 0 THEN "none"
    ELSE NegateOpt(EvalConnective(st[2], FindTopLevelOp(st[2], <<"|", "|">>),
                                  FindTopLevelOp(st[2], <<"&", "&">>), user_values),
                   st[1])

\* lines 306-336, for e = trim_outer_parens(expr).trim()
EvalOuterTrimmed(e, user_values) ==
    IF Len(e) = 0 THEN "none" ELSE EvalStripped(StripNegations(e, FALSE), user_values)

\* eval_visible_expr
EvalVisibleExpr(expr, user_values) ==
    EvalOuterTrimmed(Trim(TrimOuterParens(expr)), user_values)

\* lines 348-353, for base = cond.trim(); user_name is NoneV or StrV(name)
EvalNormalizedCondition(base, user_name, user_values) ==
    IF Len(base) = 0 THEN "none"
    ELSE IF (base = <<"0">> \/ base = <<"1">>) /\ user_name # NoneV
    THEN EvalVisibleExpr(user_name.s \o <<".", "v", "a", "l", "u", "e">> \o <<"=", "=">> \o base, user_values)
    ELSE EvalVisibleExpr(base, user_values)

\* eval_visible_condition
EvalVisibleCondition(cond, user_name, user_values) ==
    EvalNormalizedCondition(Trim(cond), user_name, user_values)

\* JSON shapes of an object's or effect's "visible" field
VisAbsent == [t |-> "absent"]
VisRecord(value, user) == [t |-> "obj", value |-> value, user |-> user]
UserCond(name, condition) == [t |-> "obj", name |-> name, condition |-> condition]

\* lines 365-374: the result of the {name, condition} form, None when the
\* "user" field is not an object
VisibleByCondition(value, user_values) ==
    IF value.user.t = "obj"
    THEN EvalVisibleCondition(
             IF value.user.condition.t = "str" THEN value.user.condition.s ELSE <<>>,
             IF value.user.name.t = "str" THEN value.user.name ELSE NoneV,
             user_values)
    ELSE "none"

\* lines 375-379: the result of the "user": "<name>" form, None when the
\* "user" field is not a string
VisibleByName(value, user_values) ==
    IF value.user.t = "str"
    THEN EvalVisibleCondition(value.user.s, NoneV, user_values)
    ELSE "none"

\* lines 371-387 without the fallback to the record's "value" field
FirstResolvedNoFallback(byCond, byName, value) ==
    IF byCond # "none" THEN byCond
    ELSE IF byName # "none" THEN byName
    ELSE "true"

\* lines 371-387: the first form that resolves, else the record's boolean
\* "value", else visible
FirstResolved(byCond, byName, value) ==
    IF byCond # "none" THEN byCond
    ELSE IF byName # "none" THEN byName
    ELSE IF value.t = "bool" THEN SomeBool(value.b)
    ELSE "true"

\* parse_object_visible: "true", "false", or "panic" when the evaluator panics
ParseObjectVisible(value, user_values) ==
    IF value.t = "absent" THEN "true"
    ELSE IF value.t = "bool" THEN SomeBool(value.b)
    ELSE IF value.t # "obj" THEN "true"
    ELSE FirstResolved(VisibleByCondition(value, user_values),
                       VisibleByName(value, user_values), value.value)

(***************************************************************************)
(* Part 2. The effect-graph builder (scene_gpu_graph.rs).                  *)
(*                                                                         *)
(* JSON values (serde_json::Value) as tagged records; object keys and      *)
(* asset references are opaque strings.                                    *)
(***************************************************************************)
JNull == [t |-> "jnull"]
JStr(s) == [t |-> "jstr", s |-> s]
JObj(m) == [t |-> "jobj", m |-> m]
JArr(a) == [t |-> "jarr", a |-> a]
JNum(n) == [t |-> "jnum", n |-> n]

\* Value::get(key): None unless the value is an object holding the key
JGet(v, key) == IF v.t = "jobj" /\ key \in DOMAIN v.m THEN v.m[key] ELSE NoneV

\* slice::get(index) for a 0-based index
SeqGet(seq, idx) == IF idx >= 0 /\ idx < Len(seq) THEN seq[idx + 1] ELSE NoneV

\* deep_merge that replaces the members of an object instead of merging them
DeepMergeOneLevel(base, ov) ==
    IF base.t = "jobj" /\ ov.t = "jobj"
    THEN JObj([k \in DOMAIN base.m \cup DOMAIN ov.m |->
                 IF k \in DOMAIN ov.m THEN ov.m[k] ELSE base.m[k]])
    ELSE IF ov.t = "jnull" THEN base
    ELSE ov

\* merge_pass_overrides::deep_merge
RECURSIVE DeepMerge(_, _)
DeepMerge(base, ov) ==
    IF base.t = "jobj" /\ ov.t = "jobj"
    THEN JObj([k \in DOMAIN base.m \cup DOMAIN ov.m |->
                 IF k \in DOMAIN ov.m
                 THEN IF k \in DOMAIN base.m THEN DeepMerge(base.m[k], ov.m[k]) ELSE ov.m[k]
                 ELSE base.m[k]])
    ELSE IF ov.t = "jnull" THEN base
    ELSE ov

\* merge_pass_overrides; override_pass is NoneV or a JSON value
MergePassOverrides(base_pass, override_pass) ==
    IF override_pass = NoneV THEN base_pass ELSE DeepMerge(base_pass, override_pass)

\* effect_override_for_material_pass with the cursor never advanced
EffectOverrideCursorStuck(effect_overrides, effect_pass_idx, material_pass_idx, sequential_cursor, material_pass_count) ==
    IF sequential_cursor + material_pass_count <= Len(effect_overrides)
    THEN [ov |-> SeqGet(effect_overrides, sequential_cursor + material_pass_idx),
          cursor |-> sequential_cursor]
    ELSE LET fallback == SeqGet(effect_overrides, effect_pass_idx)
             arr == IF fallback = NoneV THEN NoneV ELSE JGet(fallback, "passes")
             local == IF arr # NoneV /\ arr.t = "jarr"
                      THEN SeqGet(arr.a, material_pass_idx)
                      ELSE NoneV
         IN  [ov |-> IF fallback = NoneV THEN NoneV
                     ELSE IF local # NoneV THEN local
                     ELSE IF material_pass_idx = 0 THEN fallback
                     ELSE NoneV,
              cursor |-> sequential_cursor]

\* effect_override_for_material_pass with the positional fallback handing the
\* whole override to every material pass
EffectOverrideFallbackAll(effect_overrides, effect_pass_idx, material_pass_idx, sequential_cursor, material_pass_count) ==
    IF sequential_cursor + material_pass_count <= Len(effect_overrides)
    THEN [ov |-> SeqGet(effect_overrides, sequential_cursor + material_pass_idx),
          cursor |-> IF material_pass_idx + 1 = material_pass_count
                     THEN sequential_cursor + material_pass_count
                     ELSE sequential_cursor]
    ELSE LET fallback == SeqGet(effect_overrides, effect_pass_idx)
             arr == IF fallback = NoneV THEN NoneV ELSE JGet(fallback, "passes")
             local == IF arr # NoneV /\ arr.t = "jarr"
                      THEN SeqGet(arr.a, material_pass_idx)
                      ELSE NoneV
         IN  [ov |-> IF fallback = NoneV THEN NoneV
                     ELSE IF local # NoneV THEN local
                     ELSE fallback,
              cursor |-> sequential_cursor]

\* effect_override_for_material_pass: the override chosen for one material
\* pass, and the value the call leaves in *sequential_cursor
EffectOverrideForMaterialPass(effect_overrides, effect_pass_idx, material_pass_idx, sequential_cursor, material_pass_count) ==
    IF sequential_cursor + material_pass_count <= Len(effect_overrides)
    THEN [ov |-> SeqGet(effect_overrides, sequential_cursor + material_pass_idx),
          cursor |-> IF material_pass_idx + 1 = material_pass_count
                     THEN sequential_cursor + material_pass_count
                     ELSE sequential_cursor]
    ELSE LET fallback == SeqGet(effect_overrides, effect_pass_idx)
             arr == IF fallback = NoneV THEN NoneV ELSE JGet(fallback, "passes")
             local == IF arr # NoneV /\ arr.t = "jarr"
                      THEN SeqGet(arr.a, material_pass_idx)
                      ELSE NoneV
         IN  [ov |-> IF fallback = NoneV THEN NoneV
                     ELSE IF local # NoneV THEN local
                     ELSE IF material_pass_idx = 0 THEN fallback
                     ELSE NoneV,
              cursor |-> sequential_cursor]

(***************************************************************************)
(* The assets the resolver can reach.  A reference outside the store does  *)
(* not resolve (parse_json_asset returns None).                            *)
(***************************************************************************)
BasePass(i) == JObj([shader |-> JStr(IF i = 0 THEN "genericimage" ELSE "effects/blur")])

AssetStore ==
    [ models_nomaterial |-> JObj([width |-> JStr("64")]),
      models_badmaterial |-> JObj([material |-> JStr("materials_missing")]),
      models_nopasses |-> JObj([material |-> JStr("materials_nopasses")]),
      models_one |-> JObj([material |-> JStr("materials_one")]),
      models_two |-> JObj([material |-> JStr("materials_two")]),
      materials_nopasses |-> JObj([name |-> JStr("empty")]),
      materials_one |-> JObj([passes |-> JArr(<<BasePass(0)>>)]),
      materials_two |-> JObj([passes |-> JArr(<<BasePass(0), BasePass(1)>>)]),
      effects_nopasses |-> JObj([name |-> JStr("empty")]),
      effects_single |-> JObj([passes |-> JArr(<<JObj([material |-> JStr("materials_one")])>>)]),
      effects_twoone |-> JObj([passes |-> JArr(<<JObj([material |-> JStr("materials_two")]),
                                                 JObj([material |-> JStr("materials_one")])>>)]),
      effects_broken |-> JObj([passes |-> JArr(<<JObj([name |-> JStr("nomaterial")]),
                                                 JObj([material |-> JStr("materials_missing")]),
                                                 JObj([material |-> JStr("materials_nopasses")]),
                                                 JObj([material |-> JStr("materials_one")])>>)]),
      genericimage_vert |-> JStr("void main() {}") ]

\* Option<String>::None
NoStr == "<none>"

\* parse_json_asset: the parsed JSON of a reference, or None
ParseJsonAsset(ref) == IF ref \in DOMAIN AssetStore THEN AssetStore[ref] ELSE NoneV

\* the string under a key (Value::get(key).and_then(as_str)), or None
JGetStr(v, key) ==
    LET x == JGet(v, key) IN IF x # NoneV /\ x.t = "jstr" THEN x.s ELSE NoStr

\* the array under a key (Value::get(key).and_then(as_array)), or None
JGetArr(v, key) ==
    LET x == JGet(v, key) IN IF x # NoneV /\ x.t = "jarr" THEN x ELSE NoneV

\* resolver.resolve_first(shader_candidates(shader, "vert")): the resolved path or None
ResolveShaderVert(shader) ==
    IF shader = "genericimage" /\ "genericimage_vert" \in DOMAIN AssetStore
    THEN "genericimage_vert"
    ELSE NoStr

(***************************************************************************)
(* Scene manifests.  An object is {image|particle, visible, effects[]}; an *)
(* effect entry is {file, visible, passes[]} where passes[] are the        *)
(* object-effect overrides.                                                *)
(***************************************************************************)
SceneObject(kind, asset, visible, effects) ==
    [kind |-> kind, asset |-> asset, visible |-> visible, effects |-> effects]

EffectEntry(visible, file, passes) == [visible |-> visible, file |-> file, passes |-> passes]

\* try_parse_user_binding on a "visible" field: <<name, value>> or None
TryParseUserBinding(v) ==
    IF v.t # "obj" THEN NoneV
    ELSE IF v.value = NoneV THEN NoneV
    ELSE IF v.user.t = "str" THEN <<v.user.s, v.value>>
    ELSE IF v.user.t = "obj" /\ v.user.name.t = "str" THEN <<v.user.name.s, v.value>>
    ELSE NoneV

\* the "visible" fields of a scene in the order collect_user_bindings_recursive
\* meets them: objects in array order, and inside an object (a map with sorted
\* keys) "effects" before "visible"
RECURSIVE VisibleFieldsOf(_)
VisibleFieldsOf(objects) ==
    IF Len(objects) = 0 THEN <<>>
    ELSE [i \in 1..Len(Head(objects).effects) |-> Head(objects).effects[i].visible]
         \o <<Head(objects).visible>>
         \o VisibleFieldsOf(Tail(objects))

\* collect_user_bindings_recursive: the first binding of a name wins
RECURSIVE CollectUserBindings(_, _)
CollectUserBindings(fields, out) ==
    IF Len(fields) = 0 THEN out
    ELSE LET b == TryParseUserBinding(Head(fields))
         IN  IF b # NoneV /\ b[1] \notin DOMAIN out
             THEN CollectUserBindings(Tail(fields), out @@ (b[1] :> b[2]))
             ELSE CollectUserBindings(Tail(fields), out)

\* collect_scene_user_properties for a bundle without project defaults
CollectSceneUserProperties(objects) ==
    CollectUserBindings(VisibleFieldsOf(objects), [x \in {} |-> NoneV])

\* push_material_passes that emits nothing for an object evaluated as not visible
PushVisibleMaterialPasses(effect_nodes, passes_data, material_asset, effect_file, effect_index, object_index, object_visible, pipeline_pass_index) ==
    effect_nodes \o
    [k \in 1..(IF object_visible THEN Len(passes_data) ELSE 0) |->
        [ object_index |-> object_index,
          object_visible |-> object_visible,
          effect_index |-> effect_index,
          effect_file |-> effect_file,
          material_asset |-> material_asset,
          pass_shader |-> JGetStr(passes_data[k], "shader"),
          shader_vert |-> ResolveShaderVert(JGetStr(passes_data[k], "shader")),
          constant_shader_values |->
              IF JGet(passes_data[k], "constantshadervalues") = NoneV THEN JNull
              ELSE JGet(passes_data[k], "constantshadervalues"),
          pass_index |-> pipeline_pass_index + k - 1 ]]

\* push_material_passes that numbers the passes of every material from 0
PushMaterialPassesFromZero(effect_nodes, passes_data, material_asset, effect_file, effect_index, object_index, object_visible, pipeline_pass_index) ==
    effect_nodes \o
    [k \in 1..Len(passes_data) |->
        [ object_index |-> object_index,
          object_visible |-> object_visible,
          effect_index |-> effect_index,
          effect_file |-> effect_file,
          material_asset |-> material_asset,
          pass_shader |-> JGetStr(passes_data[k], "shader"),
          shader_vert |-> ResolveShaderVert(JGetStr(passes_data[k], "shader")),
          constant_shader_values |->
              IF JGet(passes_data[k], "constantshadervalues") = NoneV THEN JNull
              ELSE JGet(passes_data[k], "constantshadervalues"),
          pass_index |-> k - 1 ]]

\* push_material_passes: one node per pass, numbered from pipeline_pass_index
PushMaterialPasses(effect_nodes, passes_data, material_asset, effect_file, effect_index, object_index, object_visible, pipeline_pass_index) ==
    effect_nodes \o
    [k \in 1..Len(passes_data) |->
        [ object_index |-> object_index,
          object_visible |-> object_visible,
          effect_index |-> effect_index,
          effect_file |-> effect_file,
          material_asset |-> material_asset,
          pass_shader |-> JGetStr(passes_data[k], "shader"),
          shader_vert |-> ResolveShaderVert(JGetStr(passes_data[k], "shader")),
          constant_shader_values |->
              IF JGet(passes_data[k], "constantshadervalues") = NoneV THEN JNull
              ELSE JGet(passes_data[k], "constantshadervalues"),
          pass_index |-> pipeline_pass_index + k - 1 ]]

(***************************************************************************)
(* State.                                                                  *)
(*   vis* : one evaluation of a visibility expression / record             *)
(*   g*   : one run of build_scene_gpu_graph                               *)
(*          gLoad     outcome of loading the top-level scene manifest      *)
(*          gScene    the manifest's objects[]                             *)
(*          gUsers    user_values                                          *)
(*          gPc       the loop the builder is in                           *)
(*          gObj, gEff, gEffPass, gMat   the 0-based loop indexes          *)
(*          gCursor   sequential_override_cursor                           *)
(*          gMerged   the merged passes of the current effect-pass         *)
(*          gPassIndex pipeline_pass_index                                 *)
(*          gNodes, gNotes   effect_nodes, notes                           *)
(*          gResult   "running", "ok", "err" or "panic"                    *)
(*   p*   : gpu-play invocations for one bundle and the processes they     *)
(*          leave behind                                                   *)
(*          pInv      the locals of each invocation                        *)
(*          pProcs    the process table                                    *)
(*          pLastPid  the PID handed out last                              *)
(*          pPidFile  realtime-ffmpeg.pid and updater.pid (NoPid: no file) *)
(*          pSurface  the entry mpvpaper plays on the monitor              *)
(*          pTextSpec runtime_spec.json exists and has entries             *)
(*   laws, bind, native, assets, pkg, audio, merge : one call each of the  *)
(*          evaluator on a pair of expressions, of the property-binding    *)
(*          collector, of the native plan builder, of the asset resolver,  *)
(*          of the archive parser, of the audio capture and of the pass    *)
(*          merge; each is a record of the call's inputs, position and     *)
(*          outputs                                                        *)
(***************************************************************************)
VARIABLES visAtoms, visUsers, visRecord, visResult, visPhase,
          gLoad, gScene, gUsers, gPc, gObj, gEff, gEffPass, gMat, gCursor, gMerged,
          gPassIndex, gNodes, gNotes, gResult,
          pInv, pProcs, pLastPid, pPidFile, pSurface, pTextSpec,
          laws, bind, native, assets, pkg, audio, merge,
          norm, overlay, timeline, session, tex

visVars == <<visAtoms, visUsers, visRecord, visResult, visPhase>>

graphVars == <<gLoad, gScene, gUsers, gPc, gObj, gEff, gEffPass, gMat, gCursor, gMerged,
               gPassIndex, gNodes, gNotes, gResult>>

playVars == <<pInv, pProcs, pLastPid, pPidFile, pSurface, pTextSpec>>

callVars == <<laws, bind, native, assets, pkg, audio, merge>>

moreVars == <<norm, overlay, timeline, session, tex>>

vars == <<visVars, graphVars, playVars, callVars, moreVars>>

\* no call is under way
Idle == [phase |-> "idle"]

\* none of the later calls is under way
IdleMore ==
    /\ norm = Idle
    /\ overlay = Idle
    /\ timeline = Idle
    /\ session = Idle
    /\ tex = Idle

IdleCalls ==
    /\ laws = Idle
    /\ bind = Idle
    /\ native = Idle
    /\ assets = Idle
    /\ pkg = Idle
    /\ audio = Idle
    /\ merge = Idle
    /\ IdleMore


IdleGraph ==
    /\ gLoad = "ok"
    /\ gScene = <<>>
    /\ gUsers = <<>>
    /\ gPc = "idle"
    /\ gObj = 0
    /\ gEff = 0
    /\ gEffPass = 0
    /\ gMat = 0
    /\ gCursor = 0
    /\ gMerged = <<>>
    /\ gPassIndex = 0
    /\ gNodes = <<>>
    /\ gNotes = <<>>
    /\ gResult = "running"

MaxInvocations == 2
MaxPids == 3

Invocations == 1..MaxInvocations
Pids == 1..MaxPids

\* no PID: the PID file is missing or does not parse, or no child was spawned
NoPid == 0


\* the arguments of gpu-play that steer the child processes
PlayArgs ==
    [ transport : {"mp4-proxy", "native-realtime"},
      require_native : BOOLEAN,
      dry_run : BOOLEAN,
      clock_overlay : BOOLEAN ]

IdleInvocation ==
    [ pc |-> "idle",
      args |-> [transport |-> "mp4-proxy", require_native |-> FALSE,
                dry_run |-> FALSE, clock_overlay |-> FALSE],
      pid |-> NoPid,
      child_id |-> NoPid,
      text_pid |-> NoPid,
      text_child |-> NoPid,
      requested_transport |-> NoStr,
      effective_transport |-> NoStr,
      final_entry |-> NoStr,
      result |-> "none" ]

\* a slot of the process table: st is "free", "running" or "zombie" (exited,
\* not waited for); parent is the invocation that spawned it, 0 once orphaned
FreeProc == [st |-> "free", kind |-> "none", parent |-> 0, signalled |-> FALSE]

IdlePlay ==
    /\ pInv = [i \in Invocations |-> IdleInvocation]
    /\ pProcs = [p \in Pids |-> FreeProc]
    /\ pLastPid = 0
    /\ pPidFile = [transcoder |-> NoPid, text |-> NoPid]
    /\ pSurface = NoStr
    /\ pTextSpec = FALSE

(***************************************************************************)
(* Inputs of the visibility evaluator: expressions are concatenations of   *)
(* at most MaxAtoms lexical atoms.                                         *)
(***************************************************************************)
MaxAtoms == 3

KeyA == <<"a">>
KeyZ == <<"z">>

\* "a" is a bound user property, "z" is bound nowhere
AtomSeqs ==
    LET ExprAtoms == { KeyA, KeyZ, <<"1">>, <<"'">>, <<"!">>, <<"(">>, <<")">>,
                       <<"|", "|">>, <<"&", "&">>, <<"=", "=">>, <<" ">> }
    IN UNION {[1..n -> ExprAtoms] : n \in 0..MaxAtoms}

RECURSIVE Flatten(_)
Flatten(atoms) == IF Len(atoms) = 0 THEN <<>> ELSE Head(atoms) \o Flatten(Tail(atoms))


\* the shapes of a "visible" field built around an expression
VisibleRecords(expr) ==
    { VisRecord(value, user) :
        value \in {NoneV, BoolV(FALSE)},
        user \in {StrV(expr), UserCond(NoneV, StrV(expr)), UserCond(StrV(KeyA), StrV(expr))} }

IdleVis ==
    /\ visAtoms = <<>>
    /\ visUsers = <<>>
    /\ visRecord = VisAbsent
    /\ visResult = "none"
    /\ visPhase = "idle"

InitVis ==
    /\ IdleGraph
    /\ IdlePlay
    /\ IdleCalls
    /\ visAtoms \in AtomSeqs
    /\ visUsers \in { (KeyA :> BoolV(TRUE)) }
    /\ visRecord = VisAbsent
    /\ visResult = "none"
    /\ visPhase = "input"

\* one call of eval_visible_condition(expr, None, user_values)
EvalCondition ==
    /\ visPhase = "input"
    /\ visResult' = EvalVisibleCondition(Flatten(visAtoms), NoneV, visUsers)
    /\ visPhase' = "condition"
    /\ UNCHANGED <<visAtoms, visUsers, visRecord, graphVars, playVars, callVars, moreVars>>

\* one call of parse_object_visible on a record that carries the expression
ParseVisible ==
    /\ visPhase = "input"
    /\ \E r \in VisibleRecords(Flatten(visAtoms)) :
          /\ visRecord' = r
          /\ visResult' = ParseObjectVisible(r, visUsers)
    /\ visPhase' = "visible"
    /\ UNCHANGED <<visAtoms, visUsers, graphVars, playVars, callVars, moreVars>>

NextVis == EvalCondition \/ ParseVisible

SpecVis == InitVis /\ [][NextVis]_vars


(***************************************************************************)
(* Inputs of the graph builder.                                            *)
(***************************************************************************)
MaxObjects == 2
MaxEffects == 2
MaxOverrides == 3

PlainOverride(k) == JObj([constantshadervalues |-> JObj([p |-> JNum(k)])])

\* an override that also carries its own per-material-pass list
NestedOverride(k) ==
    JObj([constantshadervalues |-> JObj([p |-> JNum(k)]),
          passes |-> JArr(<<JObj([constantshadervalues |-> JObj([p |-> JNum(10 + k)])])>>)])

\* hidden by a condition on a user property that the record itself binds
VisByCondition == VisRecord(BoolV(TRUE), UserCond(StrV(KeyA), StrV(<<"0">>)))

\* scenes of one loadable object whose effect entries vary in files and overrides
OverrideScenes ==
    LET OverrideLists ==
            {[i \in 1..n |-> PlainOverride(i - 1)] : n \in 0..MaxOverrides}
            \cup {[i \in 1..n |-> NestedOverride(i - 1)] : n \in 1..MaxOverrides}
        OverrideEntries ==
            {EffectEntry(VisAbsent, f, ovs) : f \in {"effects_single", "effects_twoone"},
                                              ovs \in OverrideLists}
            \cup {EffectEntry(BoolV(FALSE), "effects_single", <<>>)}
    IN {<<SceneObject("image", "models_two", VisAbsent, effs)>> :
           effs \in UNION {[1..n -> OverrideEntries] : n \in 1..MaxEffects}}

\* scenes of several objects that vary in what loads and what is visible
PipelineScenes ==
    LET \* a condition on an unbound identifier, with value: false
        VisUnresolved == VisRecord(BoolV(FALSE), UserCond(NoneV, StrV(KeyZ)))
        \* a condition whose left operand is a lone quote
        VisLoneQuote == VisRecord(NoneV, UserCond(NoneV, StrV(<<"'", "=", "=">>)))
        PipelineEffectLists ==
            { <<>>,
              <<EffectEntry(VisAbsent, "effects_single", <<>>)>>,
              <<EffectEntry(VisByCondition, "effects_single", <<>>)>>,
              <<EffectEntry(VisAbsent, NoStr, <<>>)>>,
              <<EffectEntry(VisAbsent, "effects_missing", <<>>)>>,
              <<EffectEntry(VisAbsent, "effects_nopasses", <<>>)>>,
              <<EffectEntry(VisAbsent, "effects_broken", <<PlainOverride(0)>>),
                EffectEntry(VisAbsent, "effects_twoone", <<>>)>> }
        PipelineObjects ==
            { SceneObject("none", NoStr, VisAbsent, <<>>),
              SceneObject("image", "models_missing", VisAbsent, <<>>),
              SceneObject("particle", "models_nomaterial", VisAbsent, <<>>),
              SceneObject("image", "models_badmaterial", VisAbsent, <<>>),
              SceneObject("image", "models_nopasses", VisAbsent, <<>>),
              SceneObject("image", "models_one", VisLoneQuote, <<>>),
              SceneObject("image", "models_two", VisUnresolved,
                          <<EffectEntry(VisAbsent, "effects_single", <<>>)>>),
              SceneObject("image", "models_one", VisAbsent,
                          <<EffectEntry(VisLoneQuote, "effects_single", <<>>)>>) }
            \cup {SceneObject("image", "models_one", v, effs) :
                    v \in {VisAbsent, VisByCondition}, effs \in PipelineEffectLists}
    IN UNION {[1..n -> PipelineObjects] : n \in 0..MaxObjects}

GraphScenes == OverrideScenes \cup PipelineScenes

(***************************************************************************)
(* build_scene_gpu_graph as a state machine.                               *)
(***************************************************************************)
InitGraph ==
    /\ IdleVis
    /\ IdlePlay
    /\ IdleCalls
    /\ \/ gLoad = "ok" /\ gScene \in GraphScenes
       \/ gLoad \in {"missing", "unparsable"} /\ gScene = <<>>
    /\ gUsers = <<>>
    /\ gPc = "start"
    /\ gObj = 0
    /\ gEff = 0
    /\ gEffPass = 0
    /\ gMat = 0
    /\ gCursor = 0
    /\ gMerged = <<>>
    /\ gPassIndex = 0
    /\ gNodes = <<>>
    /\ gNotes = <<>>
    /\ gResult = "running"

Note(kind, object_index) == [kind |-> kind, object_index |-> object_index]

CurObject == gScene[gObj + 1]
ObjectData == ParseJsonAsset(CurObject.asset)
MaterialRef == JGetStr(ObjectData, "material")
MaterialData == ParseJsonAsset(MaterialRef)
BasePasses == JGetArr(MaterialData, "passes")
ObjectVisible == ParseObjectVisible(CurObject.visible, gUsers)

CurEffect == CurObject.effects[gEff + 1]
EffectVisible == ParseObjectVisible(CurEffect.visible, gUsers)
EffectData == ParseJsonAsset(CurEffect.file)
EffectPasses == JGetArr(EffectData, "passes")

EffectMaterialRef == JGetStr(EffectPasses.a[gEffPass + 1], "material")
EffectMaterialData == ParseJsonAsset(EffectMaterialRef)
EffectMaterialPasses == JGetArr(EffectMaterialData, "passes")

\* lines 794-820: load the manifest, or fail
LoadScene ==
    /\ gPc = "start"
    /\ IF gLoad = "ok"
       THEN /\ gUsers' = CollectSceneUserProperties(gScene)
            /\ gPc' = "object"
            /\ UNCHANGED gResult
       ELSE /\ gResult' = "err"
            /\ gPc' = "done"
            /\ UNCHANGED gUsers
    /\ UNCHANGED <<gLoad, gScene, gObj, gEff, gEffPass, gMat, gCursor, gMerged,
                   gPassIndex, gNodes, gNotes, visVars, playVars, callVars, moreVars>>

\* the `continue` of the object loop, with or without a note
NextObject(notes) ==
    /\ gObj' = gObj + 1
    /\ gNotes' = notes
    /\ UNCHANGED <<gLoad, gScene, gUsers, gPc, gEff, gEffPass, gMat, gCursor, gMerged,
                   gPassIndex, gNodes, gResult, visVars, playVars, callVars, moreVars>>

AtObject == gPc = "object" /\ gObj < Len(gScene)

\* neither "image" nor "particle"
ObjectWithoutKind ==
    /\ AtObject
    /\ CurObject.kind = "none"
    /\ NextObject(gNotes)

\* parse_object_visible panics: the builder unwinds
ObjectVisiblePanics ==
    /\ AtObject
    /\ CurObject.kind # "none"
    /\ ObjectVisible = "panic"
    /\ gResult' = "panic"
    /\ gPc' = "done"
    /\ UNCHANGED <<gLoad, gScene, gUsers, gObj, gEff, gEffPass, gMat, gCursor, gMerged,
                   gPassIndex, gNodes, gNotes, visVars, playVars, callVars, moreVars>>

ObjectLoads == AtObject /\ CurObject.kind # "none" /\ ObjectVisible # "panic"

ObjectAssetMissing ==
    /\ ObjectLoads
    /\ ObjectData = NoneV
    /\ NextObject(Append(gNotes, Note("object references missing asset", gObj)))

ObjectWithoutMaterial ==
    /\ ObjectLoads
    /\ ObjectData # NoneV
    /\ MaterialRef = NoStr
    /\ NextObject(Append(gNotes, Note("object asset has no material", gObj)))

ObjectMaterialMissing ==
    /\ ObjectLoads
    /\ ObjectData # NoneV
    /\ MaterialRef # NoStr
    /\ MaterialData = NoneV
    /\ NextObject(Append(gNotes, Note("object material not found", gObj)))

MaterialWithoutPasses ==
    /\ ObjectLoads
    /\ ObjectData # NoneV
    /\ MaterialRef # NoStr
    /\ MaterialData # NoneV
    /\ BasePasses = NoneV
    /\ NextObject(Append(gNotes, Note("material has no passes", gObj)))

ObjectOk ==
    /\ ObjectLoads
    /\ ObjectData # NoneV
    /\ MaterialRef # NoStr
    /\ MaterialData # NoneV
    /\ BasePasses # NoneV

\* lines 891-1033: push the base-material passes and enter the effects loop
PushBasePasses ==
    /\ ObjectOk
    /\ gNodes' = PushMaterialPasses(gNodes, BasePasses.a, MaterialRef, MaterialRef, -1,
                                    gObj, ObjectVisible = "true", 0)
    /\ gPassIndex' = Len(BasePasses.a)
    /\ gCursor' = 0
    /\ gEff' = 0
    /\ gPc' = "effects"
    /\ UNCHANGED <<gLoad, gScene, gUsers, gObj, gEffPass, gMat, gMerged, gNotes, gResult,
                   visVars, playVars, callVars, moreVars>>

\* the `continue` of the effects loop
NextEffect(notes) ==
    /\ gEff' = gEff + 1
    /\ gNotes' = notes
    /\ UNCHANGED <<gLoad, gScene, gUsers, gPc, gObj, gEffPass, gMat, gCursor, gMerged,
                   gPassIndex, gNodes, gResult, visVars, playVars, callVars, moreVars>>

AtEffect == gPc = "effects" /\ gEff < Len(CurObject.effects)

EffectsDone ==
    /\ gPc = "effects"
    /\ gEff >= Len(CurObject.effects)
    /\ gPc' = "object"
    /\ gObj' = gObj + 1
    /\ UNCHANGED <<gLoad, gScene, gUsers, gEff, gEffPass, gMat, gCursor, gMerged,
                   gPassIndex, gNodes, gNotes, gResult, visVars, playVars, callVars, moreVars>>

EffectVisiblePanics ==
    /\ AtEffect
    /\ EffectVisible = "panic"
    /\ gResult' = "panic"
    /\ gPc' = "done"
    /\ UNCHANGED <<gLoad, gScene, gUsers, gObj, gEff, gEffPass, gMat, gCursor, gMerged,
                   gPassIndex, gNodes, gNotes, visVars, playVars, callVars, moreVars>>

EffectNotVisible ==
    /\ AtEffect
    /\ EffectVisible = "false"
    /\ NextEffect(gNotes)

EffectWithoutFile ==
    /\ AtEffect
    /\ EffectVisible = "true"
    /\ CurEffect.file = NoStr
    /\ NextEffect(gNotes)

EffectFileMissing ==
    /\ AtEffect
    /\ EffectVisible = "true"
    /\ CurEffect.file # NoStr
    /\ EffectData = NoneV
    /\ NextEffect(Append(gNotes, Note("object effect not found", gObj)))

EffectWithoutPasses ==
    /\ AtEffect
    /\ EffectVisible = "true"
    /\ CurEffect.file # NoStr
    /\ EffectData # NoneV
    /\ EffectPasses = NoneV
    /\ NextEffect(gNotes)

\* lines 1055-1061: the effect loads, enter its effect-pass loop
EnterEffect ==
    /\ AtEffect
    /\ EffectVisible = "true"
    /\ CurEffect.file # NoStr
    /\ EffectData # NoneV
    /\ EffectPasses # NoneV
    /\ gEffPass' = 0
    /\ gPc' = "effect_pass"
    /\ UNCHANGED <<gLoad, gScene, gUsers, gObj, gEff, gMat, gCursor, gMerged,
                   gPassIndex, gNodes, gNotes, gResult, visVars, playVars, callVars, moreVars>>

\* the `continue` of the effect-pass loop
NextEffectPass(notes) ==
    /\ gEffPass' = gEffPass + 1
    /\ gNotes' = notes
    /\ UNCHANGED <<gLoad, gScene, gUsers, gPc, gObj, gEff, gMat, gCursor, gMerged,
                   gPassIndex, gNodes, gResult, visVars, playVars, callVars, moreVars>>

AtEffectPass == gPc = "effect_pass" /\ gEffPass < Len(EffectPasses.a)

EffectPassesDone ==
    /\ gPc = "effect_pass"
    /\ gEffPass >= Len(EffectPasses.a)
    /\ gPc' = "effects"
    /\ gEff' = gEff + 1
    /\ UNCHANGED <<gLoad, gScene, gUsers, gObj, gEffPass, gMat, gCursor, gMerged,
                   gPassIndex, gNodes, gNotes, gResult, visVars, playVars, callVars, moreVars>>

EffectPassWithoutMaterial ==
    /\ AtEffectPass
    /\ EffectMaterialRef = NoStr
    /\ NextEffectPass(gNotes)

EffectMaterialMissing ==
    /\ AtEffectPass
    /\ EffectMaterialRef # NoStr
    /\ EffectMaterialData = NoneV
    /\ NextEffectPass(Append(gNotes, Note("object effect material not found", gObj)))

EffectMaterialWithoutPasses ==
    /\ AtEffectPass
    /\ EffectMaterialRef # NoStr
    /\ EffectMaterialData # NoneV
    /\ EffectMaterialPasses = NoneV
    /\ NextEffectPass(gNotes)

\* lines 1083-1086: start the map over the material passes
EnterEffectPass ==
    /\ AtEffectPass
    /\ EffectMaterialRef # NoStr
    /\ EffectMaterialData # NoneV
    /\ EffectMaterialPasses # NoneV
    /\ gMat' = 0
    /\ gMerged' = <<>>
    /\ gPc' = "merge"
    /\ UNCHANGED <<gLoad, gScene, gUsers, gObj, gEff, gEffPass, gCursor,
                   gPassIndex, gNodes, gNotes, gResult, visVars, playVars, callVars, moreVars>>

\* lines 1086-1095: one iteration of the map closure
MergeMaterialPass ==
    /\ gPc = "merge"
    /\ gMat < Len(EffectMaterialPasses.a)
    /\ LET r == EffectOverrideForMaterialPass(CurEffect.passes, gEffPass, gMat, gCursor,
                                              Len(EffectMaterialPasses.a))
       IN  /\ gMerged' = Append(gMerged,
                                MergePassOverrides(EffectMaterialPasses.a[gMat + 1], r.ov))
           /\ gCursor' = r.cursor
    /\ gMat' = gMat + 1
    /\ UNCHANGED <<gLoad, gScene, gUsers, gPc, gObj, gEff, gEffPass,
                   gPassIndex, gNodes, gNotes, gResult, visVars, playVars, callVars, moreVars>>

\* lines 1098-1106: push the merged passes of the effect-pass
PushEffectPasses ==
    /\ gPc = "merge"
    /\ gMat >= Len(EffectMaterialPasses.a)
    /\ gNodes' = PushMaterialPasses(gNodes, gMerged, EffectMaterialRef, CurEffect.file, gEff,
                                    gObj, ObjectVisible = "true", gPassIndex)
    /\ gPassIndex' = gPassIndex + Len(gMerged)
    /\ gEffPass' = gEffPass + 1
    /\ gPc' = "effect_pass"
    /\ UNCHANGED <<gLoad, gScene, gUsers, gObj, gEff, gMat, gCursor, gMerged,
                   gNotes, gResult, visVars, playVars, callVars, moreVars>>

\* lines 1113-1134: the closing notes and the Ok result
FinishGraph ==
    /\ gPc = "object"
    /\ gObj >= Len(gScene)
    /\ gNotes' = gNotes \o
                 << IF Len(gNodes) = 0
                    THEN Note("no material/pass nodes were generated", -1)
                    ELSE Note("built material pass nodes", Len(gNodes)),
                    Note("graph source", -1) >>
    /\ gResult' = "ok"
    /\ gPc' = "done"
    /\ UNCHANGED <<gLoad, gScene, gUsers, gObj, gEff, gEffPass, gMat, gCursor, gMerged,
                   gPassIndex, gNodes, visVars, playVars, callVars, moreVars>>

NextGraph ==
    \/ LoadScene
    \/ ObjectWithoutKind
    \/ ObjectVisiblePanics
    \/ ObjectAssetMissing
    \/ ObjectWithoutMaterial
    \/ ObjectMaterialMissing
    \/ MaterialWithoutPasses
    \/ PushBasePasses
    \/ EffectsDone
    \/ EffectVisiblePanics
    \/ EffectNotVisible
    \/ EffectWithoutFile
    \/ EffectFileMissing
    \/ EffectWithoutPasses
    \/ EnterEffect
    \/ EffectPassesDone
    \/ EffectPassWithoutMaterial
    \/ EffectMaterialMissing
    \/ EffectMaterialWithoutPasses
    \/ EnterEffectPass
    \/ MergeMaterialPass
    \/ PushEffectPasses
    \/ FinishGraph

SpecGraph == InitGraph /\ [][NextGraph]_vars

(***************************************************************************)
(* Part 3. gpu-play (lib.rs, scene_gpu_backend.rs, scene_text.rs,          *)
(* playback.rs): the invocations of one bundle, one after the other, and   *)
(* the transcoder, text-refresh and mpvpaper processes they manage.        *)
(*                                                                         *)
(* The operating system: a child that exits stays in the process table as  *)
(* a zombie until its parent waits for it or exits; `kill -0 <pid>`        *)
(* succeeds for every PID in the table, zombies included; SIGTERM makes a  *)
(* running child exit some time later.  The cache directory is writable:   *)
(* writing a PID file succeeds.                                            *)
(***************************************************************************)
InitPlay ==
    /\ IdleVis
    /\ IdleGraph
    /\ IdleCalls
    /\ pInv = [i \in Invocations |-> IdleInvocation]
    /\ pProcs = [p \in Pids |-> FreeProc]
    /\ pLastPid = 0
    /\ pPidFile = [transcoder |-> NoPid, text |-> NoPid]
    /\ pSurface = NoStr
    /\ pTextSpec \in BOOLEAN


\* fork: the first PID after the last one handed out that is free, going round
NextFreePid(procs, last) ==
    IF \A p \in Pids : procs[p].st # "free" THEN NoPid
    ELSE ((last + MinOf({k \in 1..MaxPids : procs[((last + k - 1) % MaxPids) + 1].st = "free"})
           - 1) % MaxPids) + 1

\* `kill <pid>` that reaches nobody
SignalNobody(procs, pid) == procs

\* `kill <pid>`: SIGTERM reaches the process that holds the PID now, if any
Signal(procs, pid) ==
    IF pid \in Pids /\ procs[pid].st = "running"
    THEN [procs EXCEPT ![pid].signalled = TRUE]
    ELSE procs

\* the gpu-play process of invocation i exits: it never waited for its
\* children, so init adopts the running ones and reaps the zombies
ProcessExit(procs, i) ==
    [p \in Pids |->
        IF procs[p].parent # i THEN procs[p]
        ELSE IF procs[p].st = "zombie" THEN FreeProc
        ELSE [procs[p] EXCEPT !.parent = 0]]

\* one step of invocation i; returning from scene_gpu_play ends the process
Step(i, locals, procs, last, pid_file, surface) ==
    /\ pInv' = [pInv EXCEPT ![i] = locals]
    /\ pProcs' = IF locals.pc = "done" THEN ProcessExit(procs, i) ELSE procs
    /\ pLastPid' = last
    /\ pPidFile' = pid_file
    /\ pSurface' = surface
    /\ UNCHANGED <<pTextSpec, visVars, graphVars, callVars, moreVars>>

Goto(i, pc) == [pInv[i] EXCEPT !.pc = pc]
\* the process ends: its arguments go with it; what it reported and the
\* children it started remain
Return(i, result) ==
    [pInv[i] EXCEPT !.pc = "done", !.result = result, !.args = IdleInvocation.args]

\* lib.rs 239-249: a new invocation starts once the previous one has ended;
\* unless dry_run, the mpvpaper of the monitor is stopped
StartInvocation(i) ==
    /\ pInv[i].pc = "idle"
    /\ \A j \in Invocations : pInv[j].pc \in {"idle", "done"}
    /\ \A j \in Invocations : j < i => pInv[j].pc = "done"
    /\ \E a \in PlayArgs :
          Step(i, [IdleInvocation EXCEPT !.pc = "prepare", !.args = a],
               pProcs, pLastPid, pPidFile,
               IF a.dry_run THEN pSurface ELSE NoStr)

\* scene_gpu_backend.rs 262-327: graph, session and entry, any of which may fail
Prepare(i) ==
    /\ pInv[i].pc = "prepare"
    /\ \E ok \in BOOLEAN :
          Step(i,
               IF ok
               THEN [pInv[i] EXCEPT
                       !.pc = IF pInv[i].args.transport = "native-realtime"
                              THEN "plan" ELSE "bake",
                       !.requested_transport = pInv[i].args.transport,
                       !.effective_transport = pInv[i].args.transport]
               ELSE Return(i, "err"),
               pProcs, pLastPid, pPidFile, pSurface)

\* lines 330-340 and 360-369: the realtime plan is built, is unavailable, or fails
BuildPlan(i) ==
    /\ pInv[i].pc = "plan"
    /\ \E plan \in {"some", "none", "err"} :
          Step(i,
               IF plan = "some" THEN Goto(i, "read_pid")
               ELSE IF plan = "none" /\ ~pInv[i].args.require_native
               THEN [pInv[i] EXCEPT !.pc = "bake",
                                    !.effective_transport = "mp4-proxy (fallback)"]
               ELSE Return(i, "err"),
               pProcs, pLastPid, pPidFile, pSurface)

\* lines 341-359 and 519-537: the baked proxy
BakeProxy(i) ==
    /\ pInv[i].pc = "bake"
    /\ \E ok \in BOOLEAN :
          Step(i,
               IF ok
               THEN [pInv[i] EXCEPT !.pc = "manifest", !.final_entry = "<session>/proxy"]
               ELSE Return(i, "err"),
               pProcs, pLastPid, pPidFile, pSurface)

\* lines 371-373: read realtime-ffmpeg.pid
ReadPidFile(i) ==
    /\ pInv[i].pc = "read_pid"
    /\ Step(i, [pInv[i] EXCEPT !.pc = "kill", !.pid = pPidFile.transcoder],
            pProcs, pLastPid, pPidFile, pSurface)

\* lines 373-402 and 516: signal the recorded PID, whose binding ends with the
\* `if let` block; a dry run prints the command line and goes on with the
\* stream URL
KillRecorded(i) ==
    /\ pInv[i].pc = "kill"
    /\ Step(i,
            IF pInv[i].args.dry_run
            THEN [pInv[i] EXCEPT !.pc = "manifest", !.pid = NoPid,
                                 !.final_entry = "udp://127.0.0.1:<port>"]
            ELSE [pInv[i] EXCEPT !.pc = "spawn", !.pid = NoPid],
            Signal(pProcs, pInv[i].pid), pLastPid, pPidFile, pSurface)

\* lines 403-457: spawn ffmpeg; the spawn fails when no PID is free
SpawnTranscoder(i) ==
    /\ pInv[i].pc = "spawn"
    /\ IF NextFreePid(pProcs, pLastPid) = NoPid
       THEN Step(i, Return(i, "err"), pProcs, pLastPid, pPidFile, pSurface)
       ELSE Step(i,
                 [pInv[i] EXCEPT !.pc = "write_pid",
                                 !.child_id = NextFreePid(pProcs, pLastPid)],
                 [pProcs EXCEPT ![NextFreePid(pProcs, pLastPid)] =
                     [st |-> "running", kind |-> "transcoder", parent |-> i,
                      signalled |-> FALSE]],
                 NextFreePid(pProcs, pLastPid), pPidFile, pSurface)

\* lines 458-459: record the child in realtime-ffmpeg.pid
WritePidFile(i) ==
    /\ pInv[i].pc = "write_pid"
    /\ Step(i, Goto(i, "probe"), pProcs, pLastPid,
            [pPidFile EXCEPT !.transcoder = pInv[i].child_id], pSurface)

\* lines 461-479 and 516: after the 1.8 s sleep `kill -0 <child>` tells whether
\* the child is alive; no status from `kill` counts as not alive
ProbeTranscoder(i) ==
    /\ pInv[i].pc = "probe"
    /\ \E status_ok \in BOOLEAN :
          Step(i,
               IF status_ok /\ pProcs[pInv[i].child_id].st # "free"
               THEN [pInv[i] EXCEPT !.pc = "manifest", !.final_entry = "udp://127.0.0.1:<port>"]
               ELSE IF pInv[i].args.require_native THEN Return(i, "err")
               ELSE [pInv[i] EXCEPT !.pc = "fallback",
                                    !.effective_transport = "mp4-proxy (fallback)"],
               pProcs, pLastPid, pPidFile, pSurface)

\* lines 480-512: the fallback bakes the proxy and returns at once
FallbackBake(i) ==
    /\ pInv[i].pc = "fallback"
    /\ \E ok \in BOOLEAN :
          Step(i,
               IF ok
               THEN [Return(i, "ok") EXCEPT !.final_entry = "<session>/proxy"]
               ELSE Return(i, "err"),
               pProcs, pLastPid, pPidFile, pSurface)

\* lines 540-624: the gpu manifest and the overlays
WriteManifest(i) ==
    /\ pInv[i].pc = "manifest"
    /\ \E ok \in BOOLEAN :
          Step(i,
               IF ~ok THEN Return(i, "err")
               ELSE IF pInv[i].args.clock_overlay THEN Goto(i, "text")
               ELSE Goto(i, "launch"),
               pProcs, pLastPid, pPidFile, pSurface)

\* scene_text.rs 665-675: nothing to do without a refresh spec that has entries
TextCheckSpec(i) ==
    /\ pInv[i].pc = "text"
    /\ Step(i, IF pTextSpec THEN Goto(i, "text_read_pid") ELSE Goto(i, "launch"),
            pProcs, pLastPid, pPidFile, pSurface)

\* scene_text.rs 677-679: read updater.pid
TextReadPidFile(i) ==
    /\ pInv[i].pc = "text_read_pid"
    /\ Step(i, [pInv[i] EXCEPT !.pc = "text_kill", !.text_pid = pPidFile.text],
            pProcs, pLastPid, pPidFile, pSurface)

\* scene_text.rs 679-692: signal the recorded PID, whose binding ends with the
\* `if let` block; a dry run stops here
TextKillRecorded(i) ==
    /\ pInv[i].pc = "text_kill"
    /\ Step(i,
            [pInv[i] EXCEPT !.pc = IF pInv[i].args.dry_run THEN "launch" ELSE "text_spawn",
                            !.text_pid = NoPid],
            Signal(pProcs, pInv[i].text_pid), pLastPid, pPidFile, pSurface)

\* scene_text.rs 694-705: spawn the text-refresh loop
TextSpawn(i) ==
    /\ pInv[i].pc = "text_spawn"
    /\ IF NextFreePid(pProcs, pLastPid) = NoPid
       THEN Step(i, Return(i, "err"), pProcs, pLastPid, pPidFile, pSurface)
       ELSE Step(i,
                 [pInv[i] EXCEPT !.pc = "text_write_pid",
                                 !.text_child = NextFreePid(pProcs, pLastPid)],
                 [pProcs EXCEPT ![NextFreePid(pProcs, pLastPid)] =
                     [st |-> "running", kind |-> "text", parent |-> i,
                      signalled |-> FALSE]],
                 NextFreePid(pProcs, pLastPid), pPidFile, pSurface)

\* scene_text.rs 707-711: record the child in updater.pid
TextWritePidFile(i) ==
    /\ pInv[i].pc = "text_write_pid"
    /\ Step(i, Goto(i, "launch"), pProcs, pLastPid,
            [pPidFile EXCEPT !.text = pInv[i].text_child], pSurface)

\* playback.rs 172-235 and scene_gpu_backend.rs 626-647: launch mpvpaper on
\* the final entry and look it up half a second later
LaunchSurface(i) ==
    /\ pInv[i].pc = "launch"
    /\ IF pInv[i].args.dry_run
       THEN Step(i, Return(i, "ok"), pProcs, pLastPid, pPidFile, pSurface)
       ELSE \E found \in BOOLEAN :
               Step(i, Return(i, IF found THEN "ok" ELSE "err"),
                    pProcs, pLastPid, pPidFile,
                    IF found THEN pInv[i].final_entry ELSE NoStr)

\* a transcoder exits by itself (bad filter graph, lost input) and any child
\* exits once SIGTERM has reached it
ChildExits(p) ==
    /\ pProcs[p].st = "running"
    /\ pProcs[p].kind = "transcoder" \/ pProcs[p].signalled
    /\ pProcs' = [pProcs EXCEPT ![p] =
                    IF pProcs[p].parent # 0
                    THEN [pProcs[p] EXCEPT !.st = "zombie"]
                    ELSE FreeProc]
    /\ UNCHANGED <<pInv, pLastPid, pPidFile, pSurface, pTextSpec, visVars, graphVars, callVars, moreVars>>

NextPlay ==
    \/ \E i \in Invocations : StartInvocation(i)
    \/ \E i \in Invocations : Prepare(i)
    \/ \E i \in Invocations : BuildPlan(i)
    \/ \E i \in Invocations : BakeProxy(i)
    \/ \E i \in Invocations : ReadPidFile(i)
    \/ \E i \in Invocations : KillRecorded(i)
    \/ \E i \in Invocations : SpawnTranscoder(i)
    \/ \E i \in Invocations : WritePidFile(i)
    \/ \E i \in Invocations : ProbeTranscoder(i)
    \/ \E i \in Invocations : FallbackBake(i)
    \/ \E i \in Invocations : WriteManifest(i)
    \/ \E i \in Invocations : TextCheckSpec(i)
    \/ \E i \in Invocations : TextReadPidFile(i)
    \/ \E i \in Invocations : TextKillRecorded(i)
    \/ \E i \in Invocations : TextSpawn(i)
    \/ \E i \in Invocations : TextWritePidFile(i)
    \/ \E i \in Invocations : LaunchSurface(i)
    \/ \E p \in Pids : ChildExits(p)

SpecPlay == InitPlay /\ [][NextPlay]_vars

(***************************************************************************)
(* Claims about the graph builder (checked under SpecGraph).               *)
(***************************************************************************)
\* the override the positional fallback names for material pass j of
\* effect-pass k: overrides[k].passes[j], else overrides[k] when j = 0
PositionalOverride(overrides, k, j) ==
    IF k >= Len(overrides) THEN NoneV
    ELSE IF /\ overrides[k + 1].t = "jobj"
            /\ "passes" \in DOMAIN overrides[k + 1].m
            /\ overrides[k + 1].m.passes.t = "jarr"
            /\ j < Len(overrides[k + 1].m.passes.a)
         THEN overrides[k + 1].m.passes.a[j + 1]
    ELSE IF j = 0 THEN overrides[k + 1]
    ELSE NoneV

\* one material pass is about to be merged and the sequential rule applies
SequentialCase ==
    /\ gPc = "merge"
    /\ gMat < Len(EffectMaterialPasses.a)
    /\ gCursor + Len(EffectMaterialPasses.a) <= Len(CurEffect.passes)

\* one material pass is about to be merged and the positional rule applies
PositionalCase ==
    /\ gPc = "merge"
    /\ gMat < Len(EffectMaterialPasses.a)
    /\ gCursor + Len(EffectMaterialPasses.a) > Len(CurEffect.passes)

\* scenario S3: overrides [O0,O1,O2] over effect-passes of 2 then 1 material passes
S3Scene ==
    << SceneObject("image", "models_two", VisAbsent,
                   << EffectEntry(VisAbsent, "effects_twoone",
                                  <<PlainOverride(0), PlainOverride(1), PlainOverride(2)>>) >>) >>

ConstantsOf(nodes) == [i \in 1..Len(nodes) |-> nodes[i].constant_shader_values]

\* C1: under the sequential rule material pass i is merged with
\* overrides[cursor + i] and the cursor advances by material_pass_count only
\* after the last material pass; in scenario S3 the effect's nodes carry
\* O0, O1 for the first effect-pass and O2 for the second.
C1_SequentialCursor ==
    /\ [][SequentialCase =>
            /\ gMerged' = Append(gMerged,
                                 DeepMerge(EffectMaterialPasses.a[gMat + 1],
                                           CurEffect.passes[gCursor + gMat + 1]))
            /\ gCursor' = IF gMat + 1 = Len(EffectMaterialPasses.a)
                          THEN gCursor + Len(EffectMaterialPasses.a)
                          ELSE gCursor]_vars
    /\ []((gResult = "ok" /\ gScene = S3Scene) =>
            ConstantsOf(gNodes) =
                << JNull, JNull, JObj([p |-> JNum(0)]), JObj([p |-> JNum(1)]),
                   JObj([p |-> JNum(2)]) >>)

C1_Witness ==
    /\ gResult = "ok"
    /\ gScene = S3Scene
    /\ Len(gNodes) = 5
    /\ gCursor = 3

\* C2 as stated: in the first effect-pass of every visible effect entry whose
\* override list is at least as long as the material's pass list, pass i is
\* merged with the entry's override i, whatever entries came before.
C2_EntryOverridesMapInOrder ==
    (gPc = "merge" /\ gEffPass = 0
        /\ Len(CurEffect.passes) >= Len(EffectMaterialPasses.a))
    => \A i \in 1..Len(gMerged) :
          gMerged[i] = DeepMerge(EffectMaterialPasses.a[i], CurEffect.passes[i])

\* C3: under the positional rule material pass j of effect-pass k is merged
\* with overrides[k].passes[j] if it exists, else with overrides[k] when j = 0,
\* else with nothing, and the cursor stays where it is.
C3_PositionalFallback ==
    [][PositionalCase =>
         /\ gMerged' = Append(gMerged,
                              MergePassOverrides(EffectMaterialPasses.a[gMat + 1],
                                                 PositionalOverride(CurEffect.passes,
                                                                    gEffPass, gMat)))
         /\ gCursor' = gCursor]_vars

C3_Witness ==
    /\ gPc = "merge"
    /\ gMat = 2
    /\ gEffPass = 0
    /\ CurEffect.passes = <<NestedOverride(0)>>
    /\ gMerged[1] = DeepMerge(BasePass(0), NestedOverride(0).m.passes.a[1])
    /\ gMerged[2] = BasePass(1)
    /\ gCursor = 0

\* the passes[] of the JSON asset behind a reference, NoneV when the reference
\* does not resolve or the asset has no passes array
PassesOfAsset(ref) == JGetArr(ParseJsonAsset(ref), "passes")

\* the passes[] of the material an object's model names, NoneV when any link
\* of the chain is missing
ObjectBasePasses(obj) ==
    IF obj.kind = "none" THEN NoneV
    ELSE PassesOfAsset(JGetStr(ParseJsonAsset(obj.asset), "material"))

\* the material references of an effect entry's effect-passes whose material
\* loads with a passes array, in declaration order
RECURSIVE LoadingMaterials(_)
LoadingMaterials(effect_passes) ==
    IF Len(effect_passes) = 0 THEN <<>>
    ELSE (IF PassesOfAsset(JGetStr(Head(effect_passes), "material")) # NoneV
          THEN <<JGetStr(Head(effect_passes), "material")>>
          ELSE <<>>)
         \o LoadingMaterials(Tail(effect_passes))

\* the materials an effect entry contributes, none when the entry is evaluated
\* as not visible or its effect file does not load
EntryMaterials(entry, user_values) ==
    IF /\ ParseObjectVisible(entry.visible, user_values) = "true"
       /\ PassesOfAsset(entry.file) # NoneV
    THEN LoadingMaterials(PassesOfAsset(entry.file).a)
    ELSE <<>>

RECURSIVE SumPassCounts(_)
SumPassCounts(materials) ==
    IF Len(materials) = 0 THEN 0
    ELSE Len(PassesOfAsset(Head(materials)).a) + SumPassCounts(Tail(materials))

RECURSIVE SumEntries(_, _)
SumEntries(entries, user_values) ==
    IF Len(entries) = 0 THEN 0
    ELSE SumPassCounts(EntryMaterials(Head(entries), user_values))
         + SumEntries(Tail(entries), user_values)

\* base-material pass count plus the material pass counts of the visible effects
ObjectPassCount(obj, user_values) ==
    IF ObjectBasePasses(obj) = NoneV THEN 0
    ELSE Len(ObjectBasePasses(obj).a) + SumEntries(obj.effects, user_values)

RECURSIVE SumVisibleObjects(_, _)
SumVisibleObjects(objects, user_values) ==
    IF Len(objects) = 0 THEN 0
    ELSE (IF ParseObjectVisible(Head(objects).visible, user_values) = "true"
          THEN ObjectPassCount(Head(objects), user_values)
          ELSE 0)
         + SumVisibleObjects(Tail(objects), user_values)

RECURSIVE SumAllObjects(_, _)
SumAllObjects(objects, user_values) ==
    IF Len(objects) = 0 THEN 0
    ELSE ObjectPassCount(Head(objects), user_values)
         + SumAllObjects(Tail(objects), user_values)

\* C4 as stated: the node count is the sum over the objects evaluated visible
\* of base passes plus the passes of the effects evaluated visible.
C4_NodesOfVisibleObjectsOnly ==
    gResult = "ok" => Len(gNodes) = SumVisibleObjects(gScene, gUsers)

\* C4 amended: the node count is the sum over every object that loads, visible
\* or not, of its base passes plus the passes of its effects evaluated visible;
\* the nodes of an object evaluated as not visible are marked object_visible =
\* false, and an effect evaluated as not visible contributes no node.
C4_NodesOfAllObjects ==
    gResult = "ok" =>
        /\ Len(gNodes) = SumAllObjects(gScene, gUsers)
        /\ \A i \in 1..Len(gNodes) :
              /\ gNodes[i].object_visible =
                    (ParseObjectVisible(gScene[gNodes[i].object_index + 1].visible, gUsers)
                        = "true")
              /\ gNodes[i].effect_index >= 0 =>
                    ParseObjectVisible(
                        gScene[gNodes[i].object_index + 1].effects[gNodes[i].effect_index + 1].visible,
                        gUsers) = "true"

C4_Witness ==
    /\ gResult = "ok"
    /\ Len(gScene) = 2
    /\ gScene[1].visible = VisByCondition
    /\ gScene[1].effects = <<EffectEntry(VisAbsent, "effects_single", <<>>)>>
    /\ gScene[2].effects = <<EffectEntry(VisByCondition, "effects_single", <<>>)>>
    /\ Len(gNodes) = 3
    /\ gNodes[1].object_visible = FALSE

\* the nodes one material contributes: <<object, effect entry, material, shader>>
MaterialKeys(object_index, effect_index, material) ==
    [k \in 1..Len(PassesOfAsset(material).a) |->
        << object_index, effect_index, material,
           JGetStr(PassesOfAsset(material).a[k], "shader") >>]

RECURSIVE MaterialsKeys(_, _, _)
MaterialsKeys(object_index, effect_index, materials) ==
    IF Len(materials) = 0 THEN <<>>
    ELSE MaterialKeys(object_index, effect_index, Head(materials))
         \o MaterialsKeys(object_index, effect_index, Tail(materials))

\* the nodes of the effect entries from 0-based position e on
RECURSIVE EntriesKeys(_, _, _, _)
EntriesKeys(object_index, entries, e, user_values) ==
    IF e >= Len(entries) THEN <<>>
    ELSE MaterialsKeys(object_index, e, EntryMaterials(entries[e + 1], user_values))
         \o EntriesKeys(object_index, entries, e + 1, user_values)

\* the nodes of one object, each with its position in the object's emission
ObjectKeys(object_index, obj, user_values) ==
    IF ObjectBasePasses(obj) = NoneV THEN <<>>
    ELSE MaterialKeys(object_index, -1,
                      JGetStr(ParseJsonAsset(obj.asset), "material"))
         \o EntriesKeys(object_index, obj.effects, 0, user_values)

Numbered(keys) == [k \in 1..Len(keys) |-> Append(keys[k], k - 1)]

\* the nodes of the objects from 0-based position o on
RECURSIVE SceneKeys(_, _, _)
SceneKeys(objects, o, user_values) ==
    IF o >= Len(objects) THEN <<>>
    ELSE Numbered(ObjectKeys(o, objects[o + 1], user_values))
         \o SceneKeys(objects, o + 1, user_values)

NodeKeys(nodes) ==
    [i \in 1..Len(nodes) |->
        << nodes[i].object_index, nodes[i].effect_index, nodes[i].material_asset,
           nodes[i].pass_shader, nodes[i].pass_index >>]

\* C5: nodes come out object by object in scene order; inside an object the
\* base-material passes, then the effect entries, their effect-passes and
\* their material passes in declaration order; and the pass_index values of an
\* object's nodes count 0, 1, 2, ... along that order.
C5_EmissionOrder ==
    gResult = "ok" => NodeKeys(gNodes) = SceneKeys(gScene, 0, gUsers)

C5_Witness ==
    /\ gResult = "ok"
    /\ Len(gScene) = 2
    /\ Len(gScene[1].effects) = 2
    /\ Len(gScene[2].effects) = 2
    /\ Len(gNodes) = 10
    /\ gNodes[5].pass_index = 4
    /\ gNodes[6].pass_index = 0
    /\ gNodes[6].object_index = 1

\* an object, effect entry or effect-pass is left behind without a node:
\* the loop index moves on and no node was pushed for the item
SkipsObject ==
    gPc = "object" /\ gPc' = "object" /\ gObj' = gObj + 1 /\ CurObject.kind # "none"

SkipsEffect ==
    /\ gPc = "effects" /\ gPc' = "effects" /\ gEff' = gEff + 1
    /\ ParseObjectVisible(CurEffect.visible, gUsers) = "true"

SkipsEffectPass ==
    gPc = "effect_pass" /\ gPc' = "effect_pass" /\ gEffPass' = gEffPass + 1

\* C6 as stated: the build fails only when the manifest cannot be loaded, and
\* every object, effect or effect-pass that is skipped because an asset, its
\* JSON or an expected field is missing adds a note.
C6_EverySkipAddsNote ==
    /\ [](gResult = "err" => gLoad # "ok")
    /\ [][(SkipsObject \/ SkipsEffect \/ SkipsEffectPass)
            => Len(gNotes') = Len(gNotes) + 1]_vars

(***************************************************************************)
(* Claims about gpu-play (checked under SpecPlay).                         *)
(***************************************************************************)
\* invocation i takes its step out of the liveness check
LeavesProbe(i) == pInv[i].pc = "probe" /\ pInv'[i].pc # "probe"

\* C7 as stated, the half about a transcoder that has exited: when the
\* liveness check runs on a transcoder that has exited, a strict invocation
\* fails with an error and any other invocation falls back to the baked proxy
\* and reports a fallback transport.
C7_ExitedTranscoderFallsBack ==
    [][\A i \in Invocations :
          (LeavesProbe(i) /\ pProcs[pInv[i].child_id].st # "running") =>
             IF pInv[i].args.require_native
             THEN pInv'[i].result = "err"
             ELSE /\ pInv'[i].pc = "fallback"
                  /\ pInv'[i].effective_transport = "mp4-proxy (fallback)"]_vars

\* the child the latest invocation that spawned one has started, NoPid when
\* none has; children is the field of the locals that holds the child
LatestChild(children) ==
    IF \A i \in Invocations : pInv[i][children] = NoPid THEN NoPid
    ELSE pInv[CHOOSE i \in Invocations :
                 /\ pInv[i][children] # NoPid
                 /\ \A j \in Invocations : pInv[j][children] # NoPid => j <= i][children]

HasUnresolvedOperand(atoms) ==
    /\ \E i \in 1..Len(atoms) : atoms[i] = KeyZ
    /\ \A i \in 1..Len(atoms) : atoms[i] # <<"'">>

\* the truth value of a record's predicate, as the evaluator reports it
PredicateOutcome(r, user_values) ==
    IF r.user.t = "obj"
    THEN EvalVisibleCondition(r.user.condition.s, r.user.name, user_values)
    ELSE EvalVisibleCondition(r.user.s, NoneV, user_values)

\* C9: evaluating a visibility expression never panics, and the result is
\* unresolved whenever the expression holds an operand that does not resolve.
C9_NeverPanicsUnknownIsUnresolved ==
    visPhase = "condition" =>
        /\ visResult # "panic"
        /\ HasUnresolvedOperand(visAtoms) => visResult = "none"

\* C10 as stated: an object whose predicate is unresolved is visible, whatever
\* else its visibility record carries.
C10_UnresolvedIsVisible ==
    (visPhase = "visible" /\ PredicateOutcome(visRecord, visUsers) = "none")
        => visResult = "true"

\* C10 amended: an object whose predicate is unresolved takes the boolean
\* "value" of its visibility record when it has one, and is visible otherwise.
C10_UnresolvedFallsBackToValue ==
    (visPhase = "visible" /\ PredicateOutcome(visRecord, visUsers) = "none")
        => visResult = (IF visRecord.value.t = "bool"
                        THEN SomeBool(visRecord.value.b)
                        ELSE "true")

C10_Witness ==
    /\ visPhase = "visible"
    /\ \E k \in 1..Len(visAtoms) : visAtoms[k] = KeyZ
    /\ PredicateOutcome(visRecord, visUsers) = "none"
    /\ visRecord.value = BoolV(FALSE)
    /\ visResult = "false"

(***************************************************************************)
(* Part 4. The evaluator on the two sides of a boolean law: both sides are *)
(* built from operands that resolve and are evaluated by                   *)
(* eval_visible_condition under the same User Property Map.                *)
(***************************************************************************)
KeyB == <<"b">>

\* sub-expressions that resolve when "a" and "b" are bound to booleans
LawOperands ==
    { KeyA, KeyB, <<"(">> \o KeyB \o <<")">>, KeyA \o <<"=", "=">> \o KeyB,
      <<"!">> \o KeyB }

LawForms ==
    { "demorgan_and", "demorgan_or", "paren_whole", "paren_operand",
      "paren_negated", "paren_and_group" }

\* the expression without (side 1) and with (side 2) the rewriting of the form
LawSide(form, side, a, b, c) ==
    LET P(x) == <<"(">> \o x \o <<")">>
        N(x) == <<"!">> \o x
        And(x, y) == x \o <<"&", "&">> \o y
        Or(x, y) == x \o <<"|", "|">> \o y
    IN CASE form = "demorgan_and" ->
              IF side = 1 THEN N(P(And(a, b))) ELSE Or(N(a), N(b))
         [] form = "demorgan_or" ->
              IF side = 1 THEN N(P(Or(a, b))) ELSE And(N(a), N(b))
         [] form = "paren_whole" ->
              IF side = 1 THEN Or(a, b) ELSE P(Or(a, b))
         [] form = "paren_operand" ->
              IF side = 1 THEN And(a, b) ELSE And(P(a), b)
         [] form = "paren_negated" ->
              IF side = 1 THEN And(N(a), b) ELSE And(P(N(a)), b)
         [] OTHER ->
              IF side = 1 THEN Or(a, And(b, c)) ELSE Or(a, P(And(b, c)))

InitLaws ==
    /\ IdleVis
    /\ IdleGraph
    /\ IdlePlay
    /\ IdleMore
    /\ laws \in [ phase : {"input"}, form : {"none"},
                  a : LawOperands, b : LawOperands, c : LawOperands,
                  users : {(KeyA :> BoolV(x)) @@ (KeyB :> BoolV(y)) : x, y \in BOOLEAN},
                  left : {"none"}, right : {"none"} ]
    /\ bind = Idle
    /\ native = Idle
    /\ assets = Idle
    /\ pkg = Idle
    /\ audio = Idle
    /\ merge = Idle

\* eval_visible_condition(expr, None, user_values) on each side of a form
EvalBothSides(form) ==
    /\ laws.phase = "input"
    /\ laws' = [laws EXCEPT
                  !.phase = "evaluated",
                  !.form = form,
                  !.left = EvalVisibleCondition(
                               LawSide(form, 1, laws.a, laws.b, laws.c), NoneV, laws.users),
                  !.right = EvalVisibleCondition(
                               LawSide(form, 2, laws.a, laws.b, laws.c), NoneV, laws.users)]
    /\ UNCHANGED <<moreVars, visVars, graphVars, playVars, bind, native, assets, pkg, audio, merge>>

NextLaws == \E form \in LawForms : EvalBothSides(form)

SpecLaws == InitLaws /\ [][NextLaws]_vars

\* C11 as stated: for operands that resolve, !(a && b) evaluates to the same
\* value as !a || !b, and !(a || b) to the same value as !a && !b.
C11_DeMorgan ==
    (laws.phase = "evaluated" /\ laws.form \in {"demorgan_and", "demorgan_or"})
        => laws.left = laws.right

\* C12 as stated: parentheses that only make the grouping explicit (around
\* the whole expression, a single operand, a negated operand, or an && group
\* inside an || chain) do not change the result.
C12_ParenthesesKeepResult ==
    (laws.phase = "evaluated"
        /\ laws.form \in {"paren_whole", "paren_operand", "paren_negated", "paren_and_group"})
        => laws.left = laws.right

(***************************************************************************)
(* Part 5. Property-binding scripts (scene_script.rs).  A right-hand side  *)
(* is a sequence of lexemes: the marker "changedUserProperties." is one    *)
(* lexeme, "true" is one lexeme, every other lexeme is one character.  An  *)
(* f64 is the exact fraction n/d of two integers.                          *)
(***************************************************************************)
MaxRhs == 4

UserMarker == "changedUserProperties."

\* char::is_ascii_alphanumeric || '_' over the lexemes of the model
IdentChars == {"g", "true", "0", "2"}

\* the characters eval_expression takes for a numeric token (line 132)
TokenChars == {"0", "2", ".", "-"}

\* parse_identifier: the leading run of identifier characters ("" when None)
ParseIdentifier(input) ==
    TakeFirst(input, Len(input) - Len(TrimStartSet(input, IdentChars)))

JFraction(n, d) == [t |-> "num", n |-> n, d |-> d]

\* lines 124-155: the `while !rest.is_empty()` loop; NoneV is a None return
RECURSIVE EvalOperatorChain(_, _)
EvalOperatorChain(rest, current_value) ==
    IF Len(rest) = 0 \/ Head(rest) \notin {"+", "-", "*", "/"} THEN current_value
    ELSE LET after_op == TrimStartSet(Tail(rest), {" "})
             token_len == Len(after_op) - Len(TrimStartSet(after_op, TokenChars))
             rhs == ParseF64(TakeFirst(after_op, token_len))
             lhs == current_value
         IN  IF token_len = 0 THEN current_value
             ELSE IF rhs = -1 THEN NoneV
             ELSE IF lhs.t # "num" THEN NoneV
             ELSE IF Head(rest) = "/" /\ rhs = 0 THEN NoneV
             ELSE EvalOperatorChain(
                      TrimStartSet(DropFirst(after_op, token_len), {" "}),
                      CASE Head(rest) = "+" -> JFraction(lhs.n + rhs * lhs.d, lhs.d)
                        [] Head(rest) = "-" -> JFraction(lhs.n - rhs * lhs.d, lhs.d)
                        [] Head(rest) = "*" -> JFraction(lhs.n * rhs, lhs.d)
                        [] OTHER -> JFraction(lhs.n, lhs.d * rhs))

\* eval_expression; NoneV is a None return
EvalExpression(expr, user_values) ==
    LET clean == Trim(expr)
        idx == Find(clean, <<UserMarker>>)
        after == DropFirst(clean, idx + 1)
        user_key == ParseIdentifier(after)
        chained == EvalOperatorChain(Trim(DropFirst(after, Len(user_key))),
                                     user_values[user_key])
    IN  IF Len(clean) = 0 THEN NoneV
        ELSE IF idx >= 0
        THEN IF Len(user_key) = 0 \/ user_key \notin DOMAIN user_values THEN NoneV
             ELSE IF chained = NoneV THEN NoneV
             ELSE [depends_on_user |-> user_key, value |-> chained]
        ELSE IF ParseF64(clean) # -1
        THEN [depends_on_user |-> NoStr, value |-> JFraction(ParseF64(clean), 1)]
        ELSE IF clean = <<"true">>
        THEN [depends_on_user |-> NoStr, value |-> BoolV(TRUE)]
        ELSE NoneV

\* collect_project_defaults: every property of general.properties that has a
\* "value" (NoneV: it has none), unless the name is already there
CollectProjectDefaults(props, out) ==
    [name \in DOMAIN out \cup {n \in DOMAIN props : props[n] # NoneV} |->
        IF name \in DOMAIN out THEN out[name] ELSE props[name]]

\* serde_json::Map::values of an object whose members are listed as declared,
\* each with the rank of its key in byte order: a BTreeMap yields them by key,
\* the preserve_order build yields them as declared
RECURSIVE MapValues(_, _)
MapValues(members, preserve_order) ==
    IF preserve_order \/ Len(members) = 0 THEN members
    ELSE LET first == CHOOSE i \in 1..Len(members) :
                         \A j \in 1..Len(members) : members[i].key <= members[j].key
         IN  <<members[first]>>
             \o MapValues([k \in 1..(Len(members) - 1) |->
                              members[IF k < first THEN k ELSE k + 1]], preserve_order)

(***************************************************************************)
(* Inputs: right-hand sides of at most MaxRhs lexemes under a map that     *)
(* binds "g"; scene objects of at most MaxMembers members, each member a   *)
(* {user, value} binding under its own key, with or without a project      *)
(* default for "x".                                                        *)
(***************************************************************************)
MaxMembers == 2
MaxKeys == 3

RhsLexemes == {UserMarker, "g", "true", "2", "0", "/", "+", ">", " "}

SceneMembers ==
    [key : 1..MaxKeys, binding : {VisRecord(NumV(v, FALSE), StrV(n)) : v \in {1, 2}, n \in {"x", "y"}}]

InitBind ==
    /\ IdleVis
    /\ IdleGraph
    /\ IdlePlay
    /\ IdleMore
    /\ laws = Idle
    /\ \/ bind \in [ phase : {"script"},
                     rhs : UNION {[1..n -> RhsLexemes] : n \in 0..MaxRhs},
                     users : {(<<"g">> :> JFraction(2, 1)), (<<"g">> :> BoolV(TRUE))} ]
       \/ bind \in [ phase : {"scene"},
                     members : {m \in UNION {[1..n -> SceneMembers] : n \in 0..MaxMembers} :
                                   \A i, j \in 1..Len(m) : m[i].key = m[j].key => i = j},
                     props : {<<>>, ("x" :> NumV(9, FALSE)), ("x" :> NoneV)},
                     preserve_order : BOOLEAN ]
    /\ native = Idle
    /\ assets = Idle
    /\ pkg = Idle
    /\ audio = Idle
    /\ merge = Idle

\* parse_script_assignments (lines 187-198) on the statement
\* "thisObject.p = <rhs>", then scene_gpu_graph.rs 815-820: the Assignment
\* pushed and the script-value map built from the resolved ones
EvalStatement ==
    /\ bind.phase = "script"
    /\ LET evaluated == EvalExpression(bind.rhs, bind.users)
       IN  bind' =
             [ phase |-> "assigned",
               rhs |-> bind.rhs,
               users |-> bind.users,
               assignments |->
                 << [ target_property |-> "p",
                      expression |-> Trim(bind.rhs),
                      depends_on_user |->
                        IF evaluated = NoneV THEN NoStr ELSE evaluated.depends_on_user,
                      resolved_value |->
                        IF evaluated = NoneV THEN NoneV ELSE evaluated.value ] >>,
               script_values |->
                 IF evaluated = NoneV THEN <<>> ELSE ("p" :> evaluated.value) ]
    /\ UNCHANGED <<moreVars, visVars, graphVars, playVars, laws, native, assets, pkg, audio, merge>>

\* collect_scene_user_properties: project defaults, then the walk of the scene
CollectProperties ==
    /\ bind.phase = "scene"
    /\ bind' =
         [ phase |-> "collected",
           members |-> bind.members,
           props |-> bind.props,
           preserve_order |-> bind.preserve_order,
           user_values |->
             CollectUserBindings(
                 [i \in 1..Len(bind.members) |->
                     MapValues(bind.members, bind.preserve_order)[i].binding],
                 CollectProjectDefaults(bind.props, <<>>)) ]
    /\ UNCHANGED <<moreVars, visVars, graphVars, playVars, laws, native, assets, pkg, audio, merge>>

NextBind == EvalStatement \/ CollectProperties

SpecBind == InitBind /\ [][NextBind]_vars

(***************************************************************************)
(* Claims about property-binding scripts and the User Property Map         *)
(* (checked under SpecBind).                                               *)
(***************************************************************************)
\* the rest of a right-hand side is a chain of + - * / with numeric right
\* operands, none of them a division by zero
RECURSIVE IsOperatorChain(_)
IsOperatorChain(rest) ==
    LET r == TrimStartSet(rest, {" "})
        operand == TrimStartSet(Tail(r), {" "})
        digits == Len(operand) - Len(TrimStartSet(operand, {"0", "2"}))
    IN  \/ Len(r) = 0
        \/ /\ Head(r) \in {"+", "-", "*", "/"}
           /\ digits > 0
           /\ ~(Head(r) = "/" /\ ParseF64(TakeFirst(operand, digits)) = 0)
           /\ IsOperatorChain(DropFirst(operand, digits))

\* the entire right-hand side is a number or boolean literal, or
\* changedUserProperties.<name> followed by an operator chain
InRestrictedGrammar(rhs) ==
    LET clean == Trim(rhs)
        name == ParseIdentifier(Tail(clean))
    IN  \/ ParseF64(clean) # -1
        \/ clean = <<"true">>
        \/ /\ Len(clean) >= 2
           /\ Head(clean) = UserMarker
           /\ Len(name) > 0
           /\ IsOperatorChain(DropFirst(Tail(clean), Len(name)))

\* C13 as stated: a statement yields a resolved value only if its entire
\* right-hand side is in the restricted grammar and divides by no zero; every
\* other right-hand side yields an Assignment that is recorded without a
\* resolved value and never enters the script-value map.
C13_ResolvedOnlyInGrammar ==
    bind.phase = "assigned" =>
        /\ Len(bind.assignments) = 1
        /\ (bind.assignments[1].resolved_value = NoneV) = (bind.script_values = <<>>)
        /\ ~InRestrictedGrammar(bind.rhs) => bind.assignments[1].resolved_value = NoneV

\* the members of the scene object that bind name, as declared
DeclaredBindingsOf(name) ==
    {i \in 1..Len(bind.members) : bind.members[i].binding.user.s = name}

\* C19 as stated: a name with a project default keeps it, and any other name
\* takes the value of the first binding of that name in declaration order;
\* a name bound nowhere is absent.
C19_FirstDeclaredBindingWins ==
    bind.phase = "collected" =>
        \A name \in {"x", "y"} :
            IF name \in DOMAIN bind.props /\ bind.props[name] # NoneV
            THEN bind.user_values[name] = bind.props[name]
            ELSE IF DeclaredBindingsOf(name) = {}
            THEN name \notin DOMAIN bind.user_values
            ELSE bind.user_values[name] =
                   bind.members[CHOOSE i \in DeclaredBindingsOf(name) :
                                   \A j \in DeclaredBindingsOf(name) : i <= j].binding.value

(***************************************************************************)
(* Part 6. The native plan classifier (scene_native_runtime.rs).           *)
(*                                                                         *)
(* An f32 is F32("fin", v) with v in hundredths, F32("inf", 1),            *)
(* F32("inf", -1) or F32("nan", 0); a vector is [x, y].  A shader name is  *)
(* a sequence of lexemes ("generic", "image", "effects/", ...) in lower    *)
(* case; a texture name is a string,                                       *)
(* "" when it is blank.                                                    *)
(***************************************************************************)
\* an f32 of the model
F32(t, v) == [t |-> t, v |-> v]

\* shader_family (the lexemes of the model are lower case already)
ShaderFamily(shader) ==
    LET normalized == Trim(shader)
    IN  IF Len(normalized) = 0 THEN <<"unknown">>
        ELSE IF StartsWith(normalized, <<"effects/">>) THEN <<"effects">>
        ELSE IF StartsWith(normalized, <<"generic", "image">>) THEN <<"generic", "image">>
        ELSE IF normalized = <<"particle">> \/ StartsWith(normalized, <<"generic", "particle">>)
        THEN <<"particle">>
        ELSE IF StartsWith(normalized, <<"generic">>) THEN <<"generic">>
        ELSE normalized

\* classify_family: the tier of the shader's family and the reason given
ClassifyFamily(shader) ==
    LET family == ShaderFamily(shader)
    IN  IF family = <<"generic", "image">>
        THEN [tier |-> "Ready", reason |-> "direct textured quad family"]
        ELSE IF family = <<"flowimage">>
        THEN [tier |-> "Ready", reason |-> "flow image approximated as textured layer"]
        ELSE IF family = <<"particle">>
        THEN [tier |-> "Ready", reason |-> "sprite particle family"]
        ELSE IF family = <<"generic">>
        THEN [tier |-> "Experimental", reason |-> "3D generic material family pending"]
        ELSE IF family \in {<<"effects">>, <<"flag">>}
        THEN [tier |-> "Experimental", reason |-> "effect family pending"]
        ELSE IF family = <<"unknown">>
        THEN [tier |-> "Unsupported", reason |-> "shader field missing"]
        ELSE [tier |-> "Unsupported", reason |-> "shader family not mapped yet"]

\* first_texture: the first non-blank of textures, else of texture_refs
FirstTexture(pass) ==
    LET named == SelectSeq(pass.textures \o pass.texture_refs, LAMBDA t : t # "")
    IN  IF Len(named) = 0 THEN NoStr ELSE Head(named)

\* with_texture_gate that forgets the object's visibility
WithTextureGateAnyObject(tier, reason, texture, visible) ==
    IF tier = "Ready" /\ texture = NoStr
    THEN [tier |-> "Unsupported", reason |-> "ready family but pass has no primary texture"]
    ELSE [tier |-> tier, reason |-> reason]

\* with_texture_gate
WithTextureGate(tier, reason, texture, visible) ==
    IF ~visible
    THEN [tier |-> "Unsupported", reason |-> "object marked as not visible in scene"]
    ELSE IF tier = "Ready" /\ texture = NoStr
    THEN [tier |-> "Unsupported", reason |-> "ready family but pass has no primary texture"]
    ELSE [tier |-> tier, reason |-> reason]

\* layer_rect_from_node: <<center_x, center_y, width, height>>; a missing
\* Option is NoneV
LayerRectFromNode(scene_width, scene_height, node) ==
    LET Fin(v) == F32("fin", v)
        Nan == F32("nan", 0)
        Sign(a) == IF a.v < 0 THEN -1 ELSE 1
        \* f32 multiplication
        Mul(a, b) ==
            IF a.t = "nan" \/ b.t = "nan" THEN Nan
            ELSE IF a.t = "fin" /\ b.t = "fin" THEN Fin((a.v * b.v) \div 100)
            ELSE IF a = Fin(0) \/ b = Fin(0) THEN Nan
            ELSE F32("inf", Sign(a) * Sign(b))
        \* f32::abs
        Abs(a) == IF a.v < 0 THEN F32(a.t, -a.v) ELSE a
        Less(a, b) ==
            a.t # "nan" /\ b.t # "nan"
            /\ IF a.t = "inf" THEN a.v < 0 /\ b # a
               ELSE IF b.t = "inf" THEN b.v > 0
               ELSE a.v < b.v
        \* f32::max: a NaN operand is ignored
        Max(a, b) == IF a.t = "nan" THEN b ELSE IF b.t = "nan" THEN a
                     ELSE IF Less(a, b) THEN b ELSE a
        \* f32::clamp: NaN stays NaN
        Clamp(x, lo, hi) == IF x.t = "nan" THEN x
                            ELSE IF Less(x, lo) THEN lo
                            ELSE IF Less(hi, x) THEN hi
                            ELSE x
        \* finite minus f32
        Sub(a, b) == IF b.t = "nan" THEN Nan
                     ELSE IF b.t = "inf" THEN F32("inf", -b.v)
                     ELSE Fin(a.v - b.v)
        particle == node.object_kind = "particle"
        scene_w == 100 * scene_width
        scene_h == 100 * scene_height
        origin == IF node.object_origin = NoneV
                  THEN [x |-> Fin(scene_w \div 2), y |-> Fin(scene_h \div 2)]
                  ELSE node.object_origin
        scale == IF node.object_scale = NoneV THEN [x |-> Fin(100), y |-> Fin(100)]
                 ELSE node.object_scale
        default_size == IF particle
                        THEN [x |-> Fin((scene_w * 28) \div 100), y |-> Fin((scene_h * 28) \div 100)]
                        ELSE [x |-> Fin(scene_w), y |-> Fin(scene_h)]
        base_size == IF node.object_size # NoneV THEN node.object_size
                     ELSE IF node.object_asset_size # NoneV THEN node.object_asset_size
                     ELSE default_size
        raw_w == Mul(base_size.x, Max(Abs(scale.x), Fin(1)))
        raw_h == Mul(base_size.y, Max(Abs(scale.y), Fin(1)))
        max_w == Fin((scene_w * (IF particle THEN 70 ELSE 105)) \div 100)
        max_h == Fin((scene_h * (IF particle THEN 70 ELSE 105)) \div 100)
    IN  << Clamp(origin.x, Fin(0), Fin(scene_w)),
           Clamp(Sub(Fin(scene_h), origin.y), Fin(0), Fin(scene_h)),
           Clamp(raw_w, Fin(800), Max(max_w, Fin(800))),
           Clamp(raw_h, Fin(800), Max(max_h, Fin(800))) >>

\* the (node, pass) pairs in the order of the two loops of
\* build_native_runtime_plan
RECURSIVE NodePasses(_)
NodePasses(nodes) ==
    IF Len(nodes) = 0 THEN <<>>
    ELSE [k \in 1..Len(Head(nodes).passes) |->
            [node |-> Head(nodes), pass |-> Head(nodes).passes[k]]]
         \o NodePasses(Tail(nodes))

\* the shader a pass is classified by (lines 263-267)
PassShader(node, pass) ==
    IF Len(Trim(pass.shader)) = 0 THEN node.pass_shader ELSE pass.shader

\* the NativePassSupport pushed for one pass (lines 268-305)
PassSupport(node, pass) ==
    LET base == ClassifyFamily(PassShader(node, pass))
        gated == WithTextureGate(base.tier, base.reason, FirstTexture(pass), node.object_visible)
    IN  [ object_index |-> node.object_index,
          pass_index |-> pass.pass_index,
          pass_shader |-> PassShader(node, pass),
          shader_family |-> ShaderFamily(PassShader(node, pass)),
          primary_texture |-> FirstTexture(pass),
          tier |-> gated.tier,
          reason |-> gated.reason ]

\* the NativeDrawLayer pushed for one pass (lines 307-348), without the
\* render states copied from the pass
DrawLayer(scene_width, scene_height, node, pass) ==
    LET rect == LayerRectFromNode(scene_width, scene_height, node)
    IN  [ object_index |-> node.object_index,
          pass_index |-> pass.pass_index,
          center_x |-> rect[1],
          center_y |-> rect[2],
          width |-> rect[3],
          height |-> rect[4],
          visible |-> node.object_visible,
          shader_family |-> ShaderFamily(PassShader(node, pass)),
          primary_texture |-> FirstTexture(pass),
          tier |-> PassSupport(node, pass).tier ]

\* the passes of a graph may not number more than this
MaxPlanPasses == 3

\* the passes a scene file gives an object: a shader and its textures
PlanPasses ==
    { [shader |-> <<"generic", "image">>, textures |-> <<"", "t.png">>, texture_refs |-> <<>>],
      [shader |-> <<"generic", "image">>, textures |-> <<"">>, texture_refs |-> <<>>],
      [shader |-> <<"generic", "x">>, textures |-> <<>>, texture_refs |-> <<"r.png">>],
      [shader |-> <<" ">>, textures |-> <<"t.png">>, texture_refs |-> <<>>] }

\* the geometry an object has when its scene file names none
PlainObject(visible, passes) ==
    [ object_kind |-> "image", object_visible |-> visible, object_origin |-> NoneV,
      object_scale |-> NoneV, object_size |-> NoneV, object_asset_size |-> NoneV,
      pass_shader |-> <<"flowimage">>, passes |-> passes ]

\* the objects whose passes number at most k, in every order
RECURSIVE PlanObjects(_)
PlanObjects(k) ==
    {<<>>} \cup
    UNION { { <<PlainObject(visible, passes)>> \o rest :
                visible \in BOOLEAN, passes \in [1..j -> PlanPasses],
                rest \in PlanObjects(k - j) } : j \in 1..k }

\* the f32 values parse_vec3 and parse_vec2 read from a scene file
PlanFloats(finite) == {F32("fin", v) : v \in finite} \cup {F32("inf", 1), F32("nan", 0)}

\* build_scene_gpu_graph numbers the objects and their passes in order
NumberedObjects(nodes) ==
    [i \in 1..Len(nodes) |->
        [ object_index |-> i - 1,
          object_kind |-> nodes[i].object_kind,
          object_visible |-> nodes[i].object_visible,
          object_origin |-> nodes[i].object_origin,
          object_scale |-> nodes[i].object_scale,
          object_size |-> nodes[i].object_size,
          object_asset_size |-> nodes[i].object_asset_size,
          pass_shader |-> nodes[i].pass_shader,
          passes |-> [k \in 1..Len(nodes[i].passes) |->
                        [ pass_index |-> k - 1,
                          shader |-> nodes[i].passes[k].shader,
                          textures |-> nodes[i].passes[k].textures,
                          texture_refs |-> nodes[i].passes[k].texture_refs ]] ]]

InitNative ==
    /\ IdleVis
    /\ IdleGraph
    /\ IdlePlay
    /\ IdleMore
    /\ laws = Idle
    /\ bind = Idle
    /\ \/ \E nodes \in PlanObjects(MaxPlanPasses) :
            native = [phase |-> "graph", scene_width |-> 100, scene_height |-> 100,
                      effect_nodes |-> NumberedObjects(nodes)]
       \/ \E side \in {1, 100}, kind \in {"image", "particle"},
             o \in {NoneV} \cup PlanFloats({-5000, 5000, 50000}),
             sc \in {NoneV} \cup PlanFloats({0, 200, -300}),
             sz \in {NoneV} \cup PlanFloats({0, 100, 400000}),
             asset \in {NoneV, F32("fin", 5000)},
             pass \in { [shader |-> <<" ">>, textures |-> <<"t.png">>, texture_refs |-> <<>>],
                        [shader |-> <<"water">>, textures |-> <<>>, texture_refs |-> <<>>] } :
            native = [phase |-> "graph", scene_width |-> side, scene_height |-> side,
                      effect_nodes |->
                        NumberedObjects(<< [ object_kind |-> kind, object_visible |-> TRUE,
                                      object_origin |-> IF o = NoneV THEN NoneV ELSE [x |-> o, y |-> o],
                                      object_scale |-> IF sc = NoneV THEN NoneV ELSE [x |-> sc, y |-> sc],
                                      object_size |-> IF sz = NoneV THEN NoneV ELSE [x |-> sz, y |-> sz],
                                      object_asset_size |->
                                        IF asset = NoneV THEN NoneV ELSE [x |-> asset, y |-> asset],
                                      pass_shader |-> <<"flowimage">>,
                                      passes |-> <<pass>> ] >>)]
    /\ assets = Idle
    /\ pkg = Idle
    /\ audio = Idle
    /\ merge = Idle

\* the NativeRuntimePlan returned for the passes and draw layers pushed
\* (lines 262-293 and 363-392)
RuntimePlan(passes, draw_layers, ready_at, experimental_at, unsupported_at) ==
    [ total_pass_nodes |-> Len(passes),
      ready_nodes |-> Cardinality(ready_at),
      experimental_nodes |-> Cardinality(experimental_at),
      unsupported_nodes |-> Cardinality(unsupported_at),
      ready_families |-> {passes[i].shader_family : i \in ready_at},
      experimental_families |-> {passes[i].shader_family : i \in experimental_at},
      unsupported_families |-> {passes[i].shader_family : i \in unsupported_at},
      ready_draw_layers |-> Cardinality(ready_at),
      passes |-> passes,
      draw_layers |-> draw_layers,
      notes |-> <<"native support summary">>
                \o (IF ready_at # {} THEN <<"native draw layers ready">> ELSE <<>>)
                \o (IF ready_at = {} /\ Len(passes) > 0
                    THEN <<"no ready shader families detected">> ELSE <<>>) ]

\* the passes of one tier
TierAt(passes, tier) == {i \in 1..Len(passes) : passes[i].tier = tier}

\* the plan of the passes classified
PlanOfPasses(passes, draw_layers) ==
    RuntimePlan(passes, draw_layers, TierAt(passes, "Ready"),
                TierAt(passes, "Experimental"), TierAt(passes, "Unsupported"))

\* the plan of the (node, pass) pairs
PlanOfPairs(scene_width, scene_height, pairs) ==
    PlanOfPasses([i \in 1..Len(pairs) |-> PassSupport(pairs[i].node, pairs[i].pass)],
                 [i \in 1..Len(pairs) |->
                    DrawLayer(scene_width, scene_height, pairs[i].node, pairs[i].pass)])

\* build_native_runtime_plan.  The objects come numbered in order, so the
\* stable sort of the draw layers by (object_index, pass_index) keeps the
\* order of the loops.
BuildNativeRuntimePlan ==
    /\ native.phase = "graph"
    /\ native' = [ phase |-> "planned",
                   scene_width |-> native.scene_width,
                   scene_height |-> native.scene_height,
                   effect_nodes |-> native.effect_nodes,
                   plan |-> PlanOfPairs(native.scene_width, native.scene_height,
                                        NodePasses(native.effect_nodes)) ]
    /\ UNCHANGED <<moreVars, visVars, graphVars, playVars, laws, bind, assets, pkg, audio, merge>>

NextNative == BuildNativeRuntimePlan

SpecNative == InitNative /\ [][NextNative]_vars

\* C14: every draw layer of a plan has 0 <= center_x <= scene_w,
\* 0 <= center_y <= scene_h, width >= 8 and height >= 8, and a layer of tier
\* Ready has a primary texture.
C14_LayersInBoundsAndTextured ==
    native.phase = "planned" =>
        \A i \in 1..Len(native.plan.draw_layers) :
            LET layer == native.plan.draw_layers[i]
                AtLeast(x, low) == \/ x = F32("inf", 1)
                                   \/ x.t = "fin" /\ x.v >= low
                AtMost(x, high) == \/ x = F32("inf", -1)
                                   \/ x.t = "fin" /\ x.v <= high
            IN  /\ AtLeast(layer.center_x, 0)
                /\ AtMost(layer.center_x, 100 * native.scene_width)
                /\ AtLeast(layer.center_y, 0)
                /\ AtMost(layer.center_y, 100 * native.scene_height)
                /\ AtLeast(layer.width, 800)
                /\ AtLeast(layer.height, 800)
                /\ layer.tier = "Ready" => layer.primary_texture # NoStr

\* the passes of the objects that are not visible
HiddenPasses == {i \in 1..Len(native.plan.passes) : ~native.plan.draw_layers[i].visible}

\* C15: every pass of an object that is not visible is Unsupported, whatever
\* its shader family and textures: it is counted in unsupported_nodes and
\* never in ready_nodes or experimental_nodes.
C15_HiddenObjectsUnsupported ==
    native.phase = "planned" =>
        /\ \A i \in HiddenPasses : native.plan.passes[i].tier = "Unsupported"
                                    /\ native.plan.draw_layers[i].tier = "Unsupported"
        /\ native.plan.unsupported_nodes >= Cardinality(HiddenPasses)
        /\ native.plan.ready_nodes + native.plan.experimental_nodes
             <= native.plan.total_pass_nodes - Cardinality(HiddenPasses)
        /\ native.plan.ready_nodes + native.plan.experimental_nodes + native.plan.unsupported_nodes
             = native.plan.total_pass_nodes

\* a plan with a hidden object whose passes have a Ready family with a
\* texture and an Experimental family, beside a visible object that is Ready
C15_HiddenReadyFamilyPlanned ==
    /\ native.phase = "planned"
    /\ \E i \in HiddenPasses : /\ ClassifyFamily(native.plan.passes[i].pass_shader).tier = "Ready"
                               /\ native.plan.passes[i].primary_texture # NoStr
    /\ \E i \in HiddenPasses : ClassifyFamily(native.plan.passes[i].pass_shader).tier = "Experimental"
    /\ native.plan.ready_nodes > 0

(***************************************************************************)
(* Part 7. The scene archive (scene_pkg.rs).                               *)
(*                                                                         *)
(* An archive file is a sequence of bytes (0..255).  A read that fails is  *)
(* NoneV.                                                                  *)
(***************************************************************************)
\* u32::to_le_bytes, as the archive's writer lays a number out
Le32(v) == <<v % 256, (v \div 256) % 256, (v \div 65536) % 256, (v \div 16777216) % 256>>

\* read_u32_le at a cursor: the value and the cursor after it
ReadU32Le(file, pos) ==
    IF pos + 4 > Len(file) THEN NoneV
    ELSE [ value |-> file[pos + 1] + 256 * file[pos + 2] + 65536 * file[pos + 3]
                     + 16777216 * file[pos + 4],
           pos |-> pos + 4 ]

\* read_sized_string at a cursor (String::from_utf8 refuses a byte sequence
\* that is not UTF-8; of the bytes of the model those are the ones >= 128)
ReadSizedString(file, pos) ==
    LET len == ReadU32Le(file, pos)
    IN  IF len = NoneV THEN NoneV
        ELSE IF len.pos + len.value > Len(file) THEN NoneV
        ELSE IF \E k \in len.pos + 1..len.pos + len.value : file[k] >= 128 THEN NoneV
        ELSE [ value |-> SubSeq(file, len.pos + 1, len.pos + len.value),
               pos |-> len.pos + len.value ]

\* the loop of parse_scene_pkg (lines 50-59): the entries still to read
RECURSIVE ReadEntries(_, _, _, _)
ReadEntries(file, pos, remaining, entries) ==
    IF remaining = 0 THEN [entries |-> entries, pos |-> pos]
    ELSE LET filename == ReadSizedString(file, pos)
         IN  IF filename = NoneV THEN NoneV
             ELSE LET offset == ReadU32Le(file, filename.pos)
                  IN  IF offset = NoneV THEN NoneV
                      ELSE LET length == ReadU32Le(file, offset.pos)
                           IN  IF length = NoneV THEN NoneV
                               ELSE ReadEntries(file, length.pos, remaining - 1,
                                        Append(entries, [ filename |-> filename.value,
                                                          offset |-> offset.value,
                                                          length |-> length.value ]))

\* parse_scene_pkg: the ScenePkg, or NoneV for an Err
ParseScenePkg(file) ==
    LET header == ReadSizedString(file, 0)
    IN  IF header = NoneV THEN NoneV
        ELSE IF ~StartsWith(header.value, <<80, 75, 71, 86>>) THEN NoneV
        ELSE LET files_count == ReadU32Le(file, header.pos)
             IN  IF files_count = NoneV THEN NoneV
                 ELSE LET read == ReadEntries(file, files_count.pos, files_count.value, <<>>)
                      IN  IF read = NoneV THEN NoneV
                          ELSE [base_offset |-> read.pos, entries |-> read.entries]

\* read_entry_bytes: seek to base_offset + offset (a seek past the end of a
\* file succeeds), then read_exact of length bytes
ReadEntryBytes(file, base_offset, entry) ==
    LET seek_pos == base_offset + entry.offset
    IN  IF seek_pos + entry.length > Len(file) THEN NoneV
        ELSE [bytes |-> SubSeq(file, seek_pos + 1, seek_pos + entry.length)]

\* the entries and the data bytes of the archives of the model
MaxEntries == 2
MaxData == 3

\* the bytes of a sized string
SizedString(bytes) == Le32(Len(bytes)) \o bytes

\* the bytes of the entry table
RECURSIVE EntryTable(_)
EntryTable(entries) ==
    IF Len(entries) = 0 THEN <<>>
    ELSE SizedString(Head(entries).filename) \o Le32(Head(entries).offset)
         \o Le32(Head(entries).length) \o EntryTable(Tail(entries))

\* an archive file as its writer lays it out: header, file count, entry
\* table, data
ArchiveBytes(header, files_count, entries, data) ==
    SizedString(header) \o Le32(files_count) \o EntryTable(entries) \o data

InitPkg ==
    /\ IdleVis
    /\ IdleGraph
    /\ IdlePlay
    /\ IdleMore
    /\ laws = Idle
    /\ bind = Idle
    /\ native = Idle
    /\ assets = Idle
    /\ \E header \in {<<80, 75, 71, 86, 48, 48, 48, 49>>, <<80, 75, 71>>, <<80, 75, 71, 86, 200>>},
          n \in 0..MaxEntries, files_count \in 0..MaxEntries, size \in 0..MaxData,
          cut \in 0..1 :
         \E entries \in [1..n -> [filename : {<<97>>, <<65>>}, offset : {0, 2}, length : {0, 2}]] :
            LET whole == ArchiveBytes(header, files_count, entries, [k \in 1..size |-> k])
            IN  pkg = [phase |-> "file", file |-> SubSeq(whole, 1, Len(whole) - cut)]
    /\ audio = Idle
    /\ merge = Idle

\* parse_scene_pkg on the file
ParsePkg ==
    /\ pkg.phase = "file"
    /\ pkg' = [phase |-> "parsed", file |-> pkg.file, parsed |-> ParseScenePkg(pkg.file)]
    /\ UNCHANGED <<moreVars, visVars, graphVars, playVars, laws, bind, native, assets, audio, merge>>

\* read_entry_bytes on an entry of the parsed archive
ReadBytes ==
    /\ pkg.phase = "parsed"
    /\ pkg.parsed # NoneV
    /\ \E i \in 1..Len(pkg.parsed.entries) :
         pkg' = [ phase |-> "read", file |-> pkg.file, parsed |-> pkg.parsed,
                  entry |-> pkg.parsed.entries[i],
                  read |-> ReadEntryBytes(pkg.file, pkg.parsed.base_offset,
                                          pkg.parsed.entries[i]) ]
    /\ UNCHANGED <<moreVars, visVars, graphVars, playVars, laws, bind, native, assets, audio, merge>>

NextPkg == ParsePkg \/ ReadBytes

SpecPkg == InitPkg /\ [][NextPkg]_vars

\* C17: every entry of a successfully parsed archive lies within the file,
\* and read_bytes on it succeeds with exactly entry.length bytes, those at
\* base_offset + entry.offset.
C17_EntriesWithinFile ==
    /\ pkg.phase = "parsed" /\ pkg.parsed # NoneV =>
         \A i \in 1..Len(pkg.parsed.entries) :
             pkg.parsed.base_offset + pkg.parsed.entries[i].offset
               + pkg.parsed.entries[i].length <= Len(pkg.file)
    /\ pkg.phase = "read" =>
         /\ pkg.read # NoneV
         /\ Len(pkg.read.bytes) = pkg.entry.length
         /\ \A k \in 1..pkg.entry.length :
                pkg.read.bytes[k] = pkg.file[pkg.parsed.base_offset + pkg.entry.offset + k]

(***************************************************************************)
(* Part 8. The asset resolver (asset_resolver.rs).                         *)
(*                                                                         *)
(* A path is the sequence of its components ("assets", "a", ".", "..");    *)
(* "A" is "a" in upper case.  A directory is the set of the paths of its   *)
(* files.                                                                  *)
(***************************************************************************)
\* normalize_rel_path: NoneV when nothing is left
RECURSIVE NormalizeComponents(_, _)
NormalizeComponents(components, out) ==
    IF Len(components) = 0 THEN out
    ELSE NormalizeComponents(Tail(components),
             IF Head(components) = "." THEN out
             ELSE IF Head(components) = ".."
             THEN (IF Len(out) = 0 THEN out ELSE SubSeq(out, 1, Len(out) - 1))
             ELSE Append(out, Head(components)))

NormalizeRelPath(path) ==
    LET out == NormalizeComponents(path, <<>>)
    IN  IF Len(out) = 0 THEN NoneV ELSE [rel |-> out]

\* find_entry: the first entry of that name, NoneV when there is none
FindEntry(entries, name) ==
    LET hits == SelectSeq(entries, LAMBDA e : EqIgnoreAsciiCase(e.filename, name))
    IN  IF Len(hits) = 0 THEN NoneV ELSE Head(hits)

\* rel.starts_with("assets/")
StartsWithAssets(rel) == Len(rel) >= 2 /\ Head(rel) = "assets"

\* rel.trim_start_matches("assets/")
RECURSIVE TrimStartMatchesAssets(_)
TrimStartMatchesAssets(rel) ==
    IF StartsWithAssets(rel) THEN TrimStartMatchesAssets(Tail(rel)) ELSE rel

\* AssetResolver::resolve: the ResolvedAsset, or NoneV
Resolve(resolver, request_path) ==
    LET normalized == NormalizeRelPath(request_path)
        rel == normalized.rel
        entry == IF resolver.pkg = NoneV THEN NoneV ELSE FindEntry(resolver.pkg.entries, rel)
        global_candidates ==
            <<rel>> \o (IF StartsWithAssets(rel) THEN <<TrimStartMatchesAssets(rel)>> ELSE <<>>)
        global_hits == SelectSeq(global_candidates, LAMBDA c : c \in resolver.global_files)
    IN  IF normalized = NoneV THEN NoneV
        ELSE IF entry # NoneV /\ entry.readable
        THEN [request_path |-> rel, resolved_path |-> entry.filename, source |-> "Package"]
        ELSE IF rel \in resolver.root_files
        THEN [request_path |-> rel, resolved_path |-> rel, source |-> "WallpaperDir"]
        ELSE IF resolver.global_assets_root /\ Len(global_hits) > 0
        THEN [request_path |-> rel, resolved_path |-> Head(global_hits),
              source |-> "GlobalAssets"]
        ELSE NoneV

\* the components of a request
MaxPath == 3

InitAssets ==
    /\ IdleVis
    /\ IdleGraph
    /\ IdlePlay
    /\ IdleMore
    /\ laws = Idle
    /\ bind = Idle
    /\ native = Idle
    /\ \E has_pkg \in BOOLEAN, n \in 0..MaxEntries,
          root_files \in SUBSET {<<"a">>, <<"assets", "a">>},
          global_assets_root \in BOOLEAN,
          global_files \in SUBSET {<<"a">>, <<"assets", "a">>, <<"assets", "assets", "a">>} :
         \E entries \in [1..n -> [filename : {<<"A">>, <<"assets", "a">>}, readable : BOOLEAN]] :
            /\ has_pkg \/ n = 0
            /\ global_assets_root \/ global_files = {}
            /\ assets = [ phase |-> "ready",
                          resolver |-> [ pkg |-> IF has_pkg THEN [entries |-> entries] ELSE NoneV,
                                         root_files |-> root_files,
                                         global_assets_root |-> global_assets_root,
                                         global_files |-> global_files ] ]
    /\ pkg = Idle
    /\ audio = Idle
    /\ merge = Idle

\* a call of resolve
ResolveRequest ==
    /\ assets.phase = "ready"
    /\ \E request_path \in UNION {[1..n -> {"assets", "a", "..", "."}] : n \in 0..MaxPath} :
         assets' = [ phase |-> "resolved", resolver |-> assets.resolver,
                     request_path |-> request_path,
                     resolved |-> Resolve(assets.resolver, request_path) ]
    /\ UNCHANGED <<moreVars, visVars, graphVars, playVars, laws, bind, native, pkg, audio, merge>>

NextAssets == ResolveRequest

SpecAssets == InitAssets /\ [][NextAssets]_vars

\* the layers in the order of the claim, each with the path it would hand
\* back for rel: archive (its entry of that name, when the bytes can be
\* read), bundle directory, global root, global root with a leading assets/
\* stripped
LayersHolding(resolver, rel) ==
    (IF resolver.pkg # NoneV /\ FindEntry(resolver.pkg.entries, rel) # NoneV
        /\ FindEntry(resolver.pkg.entries, rel).readable
     THEN <<[source |-> "Package", resolved_path |-> FindEntry(resolver.pkg.entries, rel).filename]>>
     ELSE <<>>)
    \o (IF rel \in resolver.root_files
        THEN <<[source |-> "WallpaperDir", resolved_path |-> rel]>> ELSE <<>>)
    \o (IF resolver.global_assets_root /\ rel \in resolver.global_files
        THEN <<[source |-> "GlobalAssets", resolved_path |-> rel]>> ELSE <<>>)
    \o (IF resolver.global_assets_root /\ StartsWithAssets(rel)
           /\ Tail(rel) \in resolver.global_files
        THEN <<[source |-> "GlobalAssets", resolved_path |-> Tail(rel)]>> ELSE <<>>)

\* C16: resolve(p) returns the asset of the first layer that holds the
\* normalized path, in the order archive, bundle directory, global root,
\* global root with a leading assets/ stripped, and none only when no layer
\* holds it.
C16_FirstHoldingLayerWins ==
    assets.phase = "resolved" /\ NormalizeRelPath(assets.request_path) # NoneV =>
        LET rel == NormalizeRelPath(assets.request_path).rel
            holding == LayersHolding(assets.resolver, rel)
        IN  IF Len(holding) = 0 THEN assets.resolved = NoneV
            ELSE /\ assets.resolved # NoneV
                 /\ assets.resolved.source = Head(holding).source
                 /\ assets.resolved.resolved_path = Head(holding).resolved_path

(***************************************************************************)
(* Part 9. The audio capture (audio.rs, stream_audio_levels).              *)
(*                                                                         *)
(* The clock counts whole seconds since `start`.  Time passes only while   *)
(* the caller waits in read() for the child; every other step is taken to  *)
(* cost no time.  The levels of the frames are left out: a frame is        *)
(* counted, not measured.                                                  *)
(***************************************************************************)
\* the clock stops here
MaxClock == 5

\* the longest capture window asked for, in seconds
MaxSeconds == 1

\* lines 115-117: sample_rate * channels * bytes_per_sample, 48000 * 2 * 2
BytesPerSecond == 192000

\* the buffer handed to read (line 154), 64 * 1024
BufLen == 65536

InitAudio ==
    /\ IdleVis
    /\ IdleGraph
    /\ IdlePlay
    /\ IdleMore
    /\ laws = Idle
    /\ bind = Idle
    /\ native = Idle
    /\ assets = Idle
    /\ pkg = Idle
    /\ \E seconds \in 0..MaxSeconds, frame_ms \in {50, 1000} :
         audio = [ phase |-> "spawn", seconds |-> seconds, frame_ms |-> frame_ms,
                   clock |-> 0, child |-> "none", read_total |-> 0, all_samples |-> 0,
                   frame_samples |-> 0, frames |-> 0, result |-> "none", returned_at |-> 0 ]
    /\ merge = Idle

\* lines 119-152: parec is spawned (or not), `start` is taken
SpawnParec ==
    /\ audio.phase = "spawn"
    /\ \/ audio' = [audio EXCEPT !.phase = "returned", !.result = "Err"]
       \/ audio' = [audio EXCEPT !.phase = "loop", !.child = "running"]
    /\ UNCHANGED <<moreVars, visVars, graphVars, playVars, laws, bind, native, assets, pkg, merge>>

\* line 155: the loop condition, then the call of read or the way out
LoopCondition ==
    /\ audio.phase = "loop"
    /\ audio' = [audio EXCEPT !.phase =
                    IF audio.read_total < BytesPerSecond * audio.seconds
                       /\ audio.clock < audio.seconds + 2
                    THEN "read" ELSE "after_loop"]
    /\ UNCHANGED <<moreVars, visVars, graphVars, playVars, laws, bind, native, assets, pkg, merge>>

\* the child has written nothing yet and keeps the pipe open: read() waits
WaitInRead ==
    /\ audio.phase = "read"
    /\ audio.child = "running"
    /\ audio.clock < MaxClock
    /\ audio' = [audio EXCEPT !.clock = @ + 1]
    /\ UNCHANGED <<moreVars, visVars, graphVars, playVars, laws, bind, native, assets, pkg, merge>>

\* the capture child ends and its end of the pipe closes
ParecExits ==
    /\ audio.child = "running"
    /\ audio.phase \in {"loop", "read"}
    /\ audio' = [audio EXCEPT !.child = "exited"]
    /\ UNCHANGED <<moreVars, visVars, graphVars, playVars, laws, bind, native, assets, pkg, merge>>

\* lines 156-188: read() returns n > 0 bytes, the frames are cut
ReadSamples ==
    /\ audio.phase = "read"
    /\ audio.child = "running"
    /\ \E n \in {BufLen - 1, BufLen} :
         LET usable == n - (n % 2)
             samples_per_frame == IF (48000 * 2 * audio.frame_ms) \div 1000 < 1 THEN 1
                                  ELSE (48000 * 2 * audio.frame_ms) \div 1000
             got == audio.frame_samples + usable \div 2
         IN  audio' = [audio EXCEPT !.phase = "loop",
                                    !.read_total = @ + n,
                                    !.all_samples = @ + usable \div 2,
                                    !.frames = @ + got \div samples_per_frame,
                                    !.frame_samples = got % samples_per_frame]
    /\ UNCHANGED <<moreVars, visVars, graphVars, playVars, laws, bind, native, assets, pkg, merge>>

\* lines 156-161: read() returns 0 at the end of the stream, or fails
ReadEnds ==
    /\ audio.phase = "read"
    /\ \/ /\ audio.child = "exited"
          /\ audio' = [audio EXCEPT !.phase = "after_loop"]
       \/ audio' = [audio EXCEPT !.phase = "returned", !.result = "Err",
                                 !.returned_at = audio.clock]
    /\ UNCHANGED <<moreVars, visVars, graphVars, playVars, laws, bind, native, assets, pkg, merge>>

\* lines 191-215: the last frame, kill and wait, the result
FinishCapture ==
    /\ audio.phase = "after_loop"
    /\ audio' = [audio EXCEPT !.phase = "returned",
                              !.child = "reaped",
                              !.frames = IF audio.frame_samples > 0 THEN @ + 1 ELSE @,
                              !.result = IF audio.all_samples = 0 THEN "Err" ELSE "Ok",
                              !.returned_at = audio.clock]
    /\ UNCHANGED <<moreVars, visVars, graphVars, playVars, laws, bind, native, assets, pkg, merge>>

NextAudio ==
    \/ SpawnParec
    \/ LoopCondition
    \/ WaitInRead
    \/ ParecExits
    \/ ReadSamples
    \/ ReadEnds
    \/ FinishCapture

SpecAudio == InitAudio /\ [][NextAudio]_vars

\* C18: a capture of `seconds` has returned, with frames or with an error,
\* by seconds + 2 s after its start, also when the child writes nothing and
\* keeps the pipe open.
C18_ReturnsByDeadline ==
    /\ audio.phase \in {"loop", "read", "after_loop"} => audio.clock <= audio.seconds + 2
    /\ audio.phase = "returned" => audio.returned_at <= audio.seconds + 2

(***************************************************************************)
(* Part 10. Pass overrides on JSON values of any shape                     *)
(* (scene_gpu_graph.rs, merge_pass_overrides).                             *)
(***************************************************************************)
\* the keys of the objects merged
MergeKeys == {"A", "B"}

\* the values that are no objects
MergeLeaves == {JNull, JNum(1), JArr(<<JNull>>)}

\* the objects over MergeKeys whose members are taken from `members`
MergeObjects(members) ==
    UNION { {JObj(m) : m \in [keys -> members]} : keys \in SUBSET MergeKeys }

\* the JSON values merged: leaves, and objects nested twice
MergeValues == MergeLeaves \cup MergeObjects(MergeLeaves \cup MergeObjects(MergeLeaves))

InitMerge ==
    /\ IdleVis
    /\ IdleGraph
    /\ IdlePlay
    /\ IdleMore
    /\ laws = Idle
    /\ bind = Idle
    /\ native = Idle
    /\ assets = Idle
    /\ pkg = Idle
    /\ audio = Idle
    /\ \E base_pass \in MergeValues, override_pass \in {NoneV} \cup MergeValues :
         merge = [phase |-> "input", base_pass |-> base_pass, override_pass |-> override_pass]

\* a call of merge_pass_overrides
MergePass ==
    /\ merge.phase = "input"
    /\ merge' = [ phase |-> "merged",
                  base_pass |-> merge.base_pass,
                  override_pass |-> merge.override_pass,
                  merged |-> MergePassOverrides(merge.base_pass, merge.override_pass) ]
    /\ UNCHANGED <<moreVars, visVars, graphVars, playVars, laws, bind, native, assets, pkg, audio>>

NextMerge == MergePass

SpecMerge == InitMerge /\ [][NextMerge]_vars

\* what the claim says of a merged value, member by member
RECURSIVE MergedAsClaimed(_, _, _)
MergedAsClaimed(merged, base, ov) ==
    IF base.t = "jobj" /\ ov.t = "jobj"
    THEN /\ merged.t = "jobj"
         /\ DOMAIN merged.m = DOMAIN base.m \cup DOMAIN ov.m
         /\ \A k \in DOMAIN merged.m :
               IF k \in DOMAIN base.m /\ k \in DOMAIN ov.m
               THEN MergedAsClaimed(merged.m[k], base.m[k], ov.m[k])
               ELSE IF k \in DOMAIN base.m THEN merged.m[k] = base.m[k]
               ELSE merged.m[k] = ov.m[k]
    ELSE IF ov = JNull THEN merged = base
    ELSE merged = ov

\* C20: merging a base pass with an override: two objects give every key of
\* either, keys of both merged recursively and keys of the base alone kept;
\* a null override keeps the base value; in every other case the override
\* replaces the base value; with no override the result is the base.
C20_DeepMergeSemantics ==
    merge.phase = "merged" =>
        IF merge.override_pass = NoneV THEN merge.merged = merge.base_pass
        ELSE MergedAsClaimed(merge.merged, merge.base_pass, merge.override_pass)

\* a merge of two objects that share a key holding objects on both sides,
\* where the inner objects share a key the override sets to null and the
\* base object has a key the override does not name
C20_NestedObjectsMerged ==
    /\ merge.phase = "merged"
    /\ merge.override_pass # NoneV
    /\ merge.base_pass.t = "jobj" /\ merge.override_pass.t = "jobj"
    /\ DOMAIN merge.base_pass.m = {"A", "B"}
    /\ DOMAIN merge.override_pass.m = {"A"}
    /\ merge.base_pass.m["A"].t = "jobj" /\ merge.override_pass.m["A"].t = "jobj"
    /\ DOMAIN merge.base_pass.m["A"].m = {"A", "B"}
    /\ DOMAIN merge.override_pass.m["A"].m = {"A", "B"}
    /\ merge.override_pass.m["A"].m["A"] = JNull
    /\ merge.base_pass.m["A"].m["A"] = JNum(1)
    /\ merge.override_pass.m["A"].m["B"] = JArr(<<JNull>>)
    /\ merge.base_pass.m["A"].m["B"] = JNum(1)
    /\ merge.merged.m["A"].m["A"] = JNum(1)
    /\ merge.merged.m["A"].m["B"] = JArr(<<JNull>>)
    /\ merge.merged.m["B"] = merge.base_pass.m["B"]

(***************************************************************************)
(* Part 11. Path normalization on the characters of a path                 *)
(* (asset_resolver.rs, normalize_rel_path).  A path is a sequence of       *)
(* characters; "\\" is the backslash.                                      *)
(***************************************************************************)
\* str::replace('\\', "/")
ReplaceBackslash(s) == [k \in 1..Len(s) |-> IF s[k] = "\\" THEN "/" ELSE s[k]]

\* the segments between the slashes of a path, empty ones included
RECURSIVE SplitSlash(_, _, _)
SplitSlash(s, current, out) ==
    IF Len(s) = 0 THEN Append(out, current)
    ELSE IF Head(s) = "/" THEN SplitSlash(Tail(s), <<>>, Append(out, current))
    ELSE SplitSlash(Tail(s), Append(current, Head(s)), out)

\* Path::components on a Unix path, without RootDir and CurDir, which
\* normalize_rel_path drops: repeated slashes and "." segments yield nothing
PathComponents(raw) ==
    SelectSeq(SplitSlash(raw, <<>>, <<>>), LAMBDA c : Len(c) > 0 /\ c # <<".">>)

\* the loop of normalize_rel_path over the components (lines 34-44)
RECURSIVE PushComponents(_, _)
PushComponents(components, out) ==
    IF Len(components) = 0 THEN out
    ELSE PushComponents(Tail(components),
             IF Head(components) = <<".", ".">>
             THEN (IF Len(out) = 0 THEN out ELSE SubSeq(out, 1, Len(out) - 1))
             ELSE Append(out, Head(components)))

\* PathBuf::to_string_lossy: the components joined by slashes
RECURSIVE JoinSlash(_)
JoinSlash(components) ==
    IF Len(components) = 0 THEN <<>>
    ELSE IF Len(components) = 1 THEN Head(components)
    ELSE Head(components) \o <<"/">> \o JoinSlash(Tail(components))

\* normalize_rel_path: [rel |-> the path], or NoneV
NormalizeRelPathChars(path) ==
    LET raw == ReplaceBackslash(Trim(path))
        s == ReplaceBackslash(JoinSlash(PushComponents(PathComponents(raw), <<>>)))
    IN  IF Len(raw) = 0 THEN NoneV
        ELSE IF Len(s) = 0 THEN NoneV
        ELSE [rel |-> s]

\* the characters of a path given to the resolver
MaxPathChars == 4

InitNorm ==
    /\ IdleVis
    /\ IdleGraph
    /\ IdlePlay
    /\ laws = Idle
    /\ bind = Idle
    /\ native = Idle
    /\ assets = Idle
    /\ pkg = Idle
    /\ audio = Idle
    /\ merge = Idle
    /\ \E path \in UNION {[1..n -> {"a", " ", "/", "\\", "."}] : n \in 0..MaxPathChars} :
         norm = [phase |-> "path", path |-> path]
    /\ overlay = Idle
    /\ timeline = Idle
    /\ session = Idle
    /\ tex = Idle

\* normalize_rel_path on the path
NormalizePath ==
    /\ norm.phase = "path"
    /\ norm' = [phase |-> "normalized", path |-> norm.path,
                normalized |-> NormalizeRelPathChars(norm.path)]
    /\ UNCHANGED <<visVars, graphVars, playVars, callVars, overlay, timeline, session, tex>>

\* normalize_rel_path on its own result
NormalizeAgain ==
    /\ norm.phase = "normalized"
    /\ norm.normalized # NoneV
    /\ norm' = [phase |-> "renormalized", path |-> norm.path,
                normalized |-> norm.normalized,
                again |-> NormalizeRelPathChars(norm.normalized.rel)]
    /\ UNCHANGED <<visVars, graphVars, playVars, callVars, overlay, timeline, session, tex>>

NextNorm == NormalizePath \/ NormalizeAgain

SpecNorm == InitNorm /\ [][NextNorm]_vars

\* C21: normalizing a normalized path returns it unchanged; a normalized
\* path has no "." or ".." segment, no backslash and no leading slash; an
\* input that normalizes to the empty path gives none.
C21_NormalizedPathIsCanonical ==
    /\ norm.phase \in {"normalized", "renormalized"} /\ norm.normalized # NoneV =>
         LET rel == norm.normalized.rel
         IN  /\ Len(rel) > 0
             /\ Head(rel) # "/"
             /\ \A k \in 1..Len(rel) : rel[k] # "\\"
             /\ \A k \in 1..Len(SplitSlash(rel, <<>>, <<>>)) :
                    SplitSlash(rel, <<>>, <<>>)[k] \notin {<<".">>, <<".", ".">>}
    /\ norm.phase = "renormalized" => norm.again = norm.normalized

(***************************************************************************)
(* Part 12. The spectrum-bars overlay of the realtime planner              *)
(* (scene_effect_proxy.rs).  An effect file name is a sequence of          *)
(* lexemes; the rectangle of the overlay is left out.                      *)
(***************************************************************************)
\* str::to_ascii_lowercase on a file name
FileToLower(file) ==
    [k \in 1..Len(file) |->
        IF file[k] = "SIMPLE_AUDIO_BARS/EFFECT.JSON" THEN "simple_audio_bars/effect.json"
        ELSE IF file[k] = "EFFECTS/" THEN "effects/"
        ELSE file[k]]

\* lines 391-396: the effect's file names the audio-visualization effect
IsAudioBarsEffect(effect) ==
    LET file == IF JGet(effect, "file") # NoneV /\ JGet(effect, "file").t = "jstr"
                THEN FileToLower(JGet(effect, "file").s) ELSE <<>>
    IN  Find(file, <<"simple_audio_bars/effect.json">>) >= 0

\* lines 398-406: the transparency mode the effect's first pass carries
TransparencyOf(effect, before) ==
    LET passes == JGet(effect, "passes")
        first == IF passes # NoneV /\ passes.t = "jarr" /\ Len(passes.a) > 0
                 THEN passes.a[1] ELSE NoneV
        combos == IF first = NoneV THEN NoneV ELSE JGet(first, "combos")
        t == IF combos = NoneV THEN NoneV ELSE JGet(combos, "TRANSPARENCY")
    IN  IF t # NoneV /\ t.t = "jnum" /\ t.n >= 0
        THEN (IF t.n % 256 < 5 THEN t.n % 256 ELSE 5)
        ELSE before

\* the loop over the effects of one object (lines 387-417)
RECURSIVE ScanEffects(_, _)
ScanEffects(effects, found) ==
    IF Len(effects) = 0 THEN found
    ELSE ScanEffects(Tail(effects),
             IF IsAudioBarsEffect(Head(effects))
             THEN [has_audio_bars |-> TRUE,
                   transparency_mode |-> TransparencyOf(Head(effects), found.transparency_mode)]
             ELSE found)

\* the loop over the objects (lines 385-481)
RECURSIVE ScanObjects(_)
ScanObjects(objects) ==
    IF Len(objects) = 0 THEN NoneV
    ELSE LET effects == JGet(Head(objects), "effects")
         IN  IF effects = NoneV \/ effects.t # "jarr" THEN NoneV
             ELSE LET found == ScanEffects(effects.a, [has_audio_bars |-> FALSE,
                                                         transparency_mode |-> 1])
                  IN  IF ~found.has_audio_bars THEN ScanObjects(Tail(objects))
                      ELSE [opacity |-> "1.0", transparency_mode |-> found.transparency_mode]

\* detect_audio_bars_overlay: the overlay, or NoneV
DetectAudioBarsOverlay(scene_json) ==
    LET objects == JGet(scene_json, "objects")
    IN  IF objects = NoneV \/ objects.t # "jarr" THEN NoneV
        ELSE ScanObjects(objects.a)

\* the objects of a scene and the effects of an object
MaxBarObjects == 2
MaxBarEffects == 2

\* the effects of the scenes of the model
BarEffects ==
    { JObj("file" :> JStr(<<"effects/", "simple_audio_bars/effect.json">>)),
      JObj(("file" :> JStr(<<"EFFECTS/", "SIMPLE_AUDIO_BARS/EFFECT.JSON">>))
           @@ ("passes" :> JArr(<<JObj("combos" :> JObj("TRANSPARENCY" :> JNum(300)))>>))),
      JObj("file" :> JStr(<<"effects/", "blur/effect.json">>)),
      JObj(<<>>) }

\* the objects of the scenes of the model: with an effects list, with an
\* effects member that is no list, with none
BarObjects ==
    {JObj("effects" :> JArr(e)) : e \in UNION {[1..n -> BarEffects] : n \in 0..MaxBarEffects}}
    \cup {JObj("effects" :> JStr(<<>>)), JObj(<<>>)}

InitOverlay ==
    /\ IdleVis
    /\ IdleGraph
    /\ IdlePlay
    /\ laws = Idle
    /\ bind = Idle
    /\ native = Idle
    /\ assets = Idle
    /\ pkg = Idle
    /\ audio = Idle
    /\ merge = Idle
    /\ norm = Idle
    /\ \E scene_json \in {JObj(<<>>), JObj("objects" :> JNull)}
                         \cup {JObj("objects" :> JArr(o)) :
                                 o \in UNION {[1..n -> BarObjects] : n \in 0..MaxBarObjects}},
          image_like \in BOOLEAN :
         overlay = [phase |-> "scene", scene_json |-> scene_json, image_like |-> image_like]
    /\ timeline = Idle
    /\ session = Idle
    /\ tex = Idle

\* build_scene_realtime_effect_plan on a bundle whose archive holds the
\* scene: no plan for an entry that is no image, else a plan carrying the
\* overlay detected
BuildRealtimeEffectPlan ==
    /\ overlay.phase = "scene"
    /\ overlay' = [ phase |-> "planned",
                    scene_json |-> overlay.scene_json,
                    image_like |-> overlay.image_like,
                    plan |-> IF ~overlay.image_like THEN NoneV
                             ELSE [ needs_audio_input |-> FALSE,
                                    audio_bars_overlay |->
                                        DetectAudioBarsOverlay(overlay.scene_json) ] ]
    /\ UNCHANGED <<visVars, graphVars, playVars, callVars, norm, timeline, session, tex>>

NextOverlay == BuildRealtimeEffectPlan

SpecOverlay == InitOverlay /\ [][NextOverlay]_vars

\* some object of the scene has an effect that names the audio bars
SomeObjectHasAudioBars(scene_json) ==
    /\ JGet(scene_json, "objects") # NoneV
    /\ JGet(scene_json, "objects").t = "jarr"
    /\ \E i \in 1..Len(JGet(scene_json, "objects").a) :
          LET effects == JGet(JGet(scene_json, "objects").a[i], "effects")
          IN  /\ effects # NoneV
              /\ effects.t = "jarr"
              /\ \E k \in 1..Len(effects.a) : IsAudioBarsEffect(effects.a[k])

\* C22: the plan reports a spectrum-bars overlay if and only if some object
\* of the scene has an effect whose file matches the audio-visualization
\* effect path, wherever that object stands and whether or not the other
\* objects carry an effects list.
C22_OverlayIffSomeObjectHasBars ==
    overlay.phase = "planned" /\ overlay.plan # NoneV =>
        ((overlay.plan.audio_bars_overlay # NoneV)
            <=> SomeObjectHasAudioBars(overlay.scene_json))

(***************************************************************************)
(* Part 13. The uniform timeline (scene_runtime.rs).  Levels are counted   *)
(* in ten-thousandths: 10000 is 1.0.                                       *)
(***************************************************************************)
\* silent_audio_stream: the frames of the silent stream
SilentAudioStream(seconds, frame_ms) ==
    LET per_frame == IF frame_ms < 1 THEN 1 ELSE frame_ms
        quotient == (seconds * 1000) \div per_frame
        frame_count == IF quotient < 1 THEN 1 ELSE quotient
    IN  [i \in 1..frame_count |-> [frame_index |-> i - 1, peak |-> 0, rms |-> 0]]

\* clamp01
Clamp01(v) == IF v < 0 THEN 0 ELSE IF v > 10000 THEN 10000 ELSE v

\* (rms * 3.0).powf(0.75) for the levels of the model: silence and full scale
EnergyPow(rms) == IF rms = 0 THEN 0 ELSE 22795

\* build_uniform_timeline: the frames left of `frames`, after the ones in out
RECURSIVE BuildUniformTimeline(_, _, _, _)
BuildUniformTimeline(frames, frame_ms, ema_before, out) ==
    IF Len(frames) = 0 THEN out
    ELSE LET f == Head(frames)
             ema_rms == (ema_before * 85) \div 100 + (f.rms * 15) \div 100
             scaled == (ema_rms * 155) \div 100
             threshold == IF scaled < 200 THEN 200 ELSE scaled
         IN  BuildUniformTimeline(Tail(frames), frame_ms, ema_rms,
                 Append(out, [ frame_index |-> f.frame_index,
                               time_ms |-> f.frame_index * frame_ms,
                               rms |-> f.rms,
                               peak |-> f.peak,
                               energy |-> Clamp01(EnergyPow(f.rms)),
                               beat |-> IF f.peak > threshold
                                        THEN Clamp01(((f.peak - threshold) * 45) \div 10)
                                        ELSE 0 ]))

\* the capture window in seconds, and the frames a capture returns
MaxWindow == 2
MaxFrames == 3

InitTimeline ==
    /\ IdleVis
    /\ IdleGraph
    /\ IdlePlay
    /\ laws = Idle
    /\ bind = Idle
    /\ native = Idle
    /\ assets = Idle
    /\ pkg = Idle
    /\ audio = Idle
    /\ merge = Idle
    /\ norm = Idle
    /\ overlay = Idle
    /\ \E seconds \in 0..MaxWindow, frame_ms \in {0, 300, 500, 1000, 3000},
          scene_json_entry \in BOOLEAN :
         \* a frame length of 0 only with an empty window: the timeline stays short
         /\ frame_ms = 0 => seconds = 0
         /\ timeline = [phase |-> "call", seconds |-> seconds, frame_ms |-> frame_ms,
                     scene_json_entry |-> scene_json_entry]
    /\ session = Idle
    /\ tex = Idle

\* run_scene_runtime with extract_music = false: the capture fails or
\* returns frames of silence and full scale
RunSceneRuntime ==
    /\ timeline.phase = "call"
    /\ \E n \in 0..MaxFrames :
         \E levels \in [1..n -> {0, 10000}], captured \in BOOLEAN :
            /\ captured => n > 0
            /\ ~captured => n = 0
            /\ timeline' =
                 IF ~timeline.scene_json_entry
                 THEN [timeline EXCEPT !.phase = "failed"]
                 ELSE [ phase |-> "done",
                        seconds |-> timeline.seconds,
                        frame_ms |-> timeline.frame_ms,
                        scene_json_entry |-> TRUE,
                        captured |-> captured,
                        notes |-> IF captured THEN <<>>
                                  ELSE <<"Live audio capture unavailable">>,
                        uniforms |->
                          BuildUniformTimeline(
                              IF captured
                              THEN [i \in 1..n |-> [frame_index |-> i - 1,
                                                    peak |-> levels[i], rms |-> levels[i]]]
                              ELSE SilentAudioStream(timeline.seconds, timeline.frame_ms),
                              timeline.frame_ms, 0, <<>>) ]
    /\ UNCHANGED <<visVars, graphVars, playVars, callVars, norm, overlay, session, tex>>

NextTimeline == RunSceneRuntime

SpecTimeline == InitTimeline /\ [][NextTimeline]_vars

\* C23: when the live capture fails the timeline has exactly
\* ceil(seconds * 1000 / frame_ms) frames, each with rms, peak, energy and
\* beat equal to 0.
C23_SilentTimelineLength ==
    timeline.phase = "done" /\ ~timeline.captured =>
        /\ \A i \in 1..Len(timeline.uniforms) :
              /\ timeline.uniforms[i].rms = 0
              /\ timeline.uniforms[i].peak = 0
              /\ timeline.uniforms[i].energy = 0
              /\ timeline.uniforms[i].beat = 0
        /\ timeline.frame_ms > 0 =>
              Len(timeline.uniforms)
                = (timeline.seconds * 1000 + timeline.frame_ms - 1) \div timeline.frame_ms

(***************************************************************************)
(* Part 14. The render-session directory (scene_renderer.rs, scene_pkg.rs) *)
(***************************************************************************)
\* Path::file_name on a Unix path: the last component when it is a normal
\* one; none for "", "/", "." and a path that ends in ".."
FileName(root) ==
    LET components == SelectSeq(SplitSlash(root, <<>>, <<>>),
                                LAMBDA c : Len(c) > 0 /\ c # <<".">>)
    IN  IF Len(components) = 0 THEN NoneV
        ELSE IF components[Len(components)] = <<".", ".">> THEN NoneV
        ELSE [name |-> components[Len(components)]]

\* root.to_string_lossy().replace('/', "_")
ReplaceSlash(s) == [k \in 1..Len(s) |-> IF s[k] = "/" THEN "_" ELSE s[k]]

\* the cache key of build_scene_render_session (lines 78-81)
SessionCacheKey(root) ==
    IF FileName(root) # NoneV THEN FileName(root).name ELSE ReplaceSlash(root)

\* default_scene_cache_root: $HOME, or "." when the variable is not set
DefaultSceneCacheRoot(home, workshop_id_or_name) ==
    [ home |-> IF home = NoneV THEN "." ELSE home.value,
      under |-> ".cache/kitsune-livewallpaper/scene",
      key |-> workshop_id_or_name ]

\* the characters of a bundle root
MaxRootChars == 3

InitSession ==
    /\ IdleVis
    /\ IdleGraph
    /\ IdlePlay
    /\ laws = Idle
    /\ bind = Idle
    /\ native = Idle
    /\ assets = Idle
    /\ pkg = Idle
    /\ audio = Idle
    /\ merge = Idle
    /\ norm = Idle
    /\ overlay = Idle
    /\ timeline = Idle
    /\ \E n \in 0..MaxRootChars :
         \E root \in [1..n -> {"7", "b", "/", "."}],
            workshopid \in {NoneV, [id |-> <<"7">>], [id |-> <<"8">>]},
            home \in {NoneV, [value |-> "/home/u"]} :
            session = [phase |-> "call", root |-> root, workshopid |-> workshopid,
                       home |-> home]
    /\ tex = Idle

\* build_scene_render_session: the runtime, the package or the primary
\* visual asset may be missing; otherwise the session directory is created
BuildSceneRenderSession ==
    /\ session.phase = "call"
    /\ \E failure \in {"none", "runtime", "pkg", "visual", "create_dir"} :
         session' =
           IF failure \in {"runtime", "pkg", "visual"}
           THEN [session EXCEPT !.phase = "failed"]
           ELSE [ phase |-> IF failure = "none" THEN "built" ELSE "failed",
                  root |-> session.root,
                  workshopid |-> session.workshopid,
                  home |-> session.home,
                  session_dir |->
                     [ parent |-> DefaultSceneCacheRoot(session.home,
                                                        SessionCacheKey(session.root)),
                       leaf |-> "render-session" ] ]
    /\ UNCHANGED <<visVars, graphVars, playVars, callVars, norm, overlay, timeline, tex>>

NextSession == BuildSceneRenderSession

SpecSession == InitSession /\ [][NextSession]_vars

\* C24: the render-session directory is <cache>/scene/<bundle_key>/render-session,
\* where bundle_key is the workshop id of the project manifest when it carries
\* one, and the bundle directory name only when it carries none.
C24_SessionDirUsesWorkshopId ==
    session.phase = "built" =>
        /\ session.session_dir.leaf = "render-session"
        /\ session.session_dir.parent.under = ".cache/kitsune-livewallpaper/scene"
        /\ session.session_dir.parent.key =
              IF session.workshopid # NoneV THEN session.workshopid.id
              ELSE SessionCacheKey(session.root)

(***************************************************************************)
(* Part 15. The signature scan of the texture decoder (tex_payload.rs).    *)
(* A file is a sequence of bytes 0..255.                                   *)
(***************************************************************************)
\* find_subslice: the first index (from 0) of needle in haystack, or -1
FindSubslice(haystack, needle) ==
    IF Len(needle) = 0 \/ Len(haystack) < Len(needle) THEN -1
    ELSE Find(haystack, needle)

PngSig == <<137, 80, 78, 71, 13, 10, 26, 10>>
JpgSig == <<255, 216, 255>>
Gif87 == <<71, 73, 70, 56, 55, 97>>
Gif89 == <<71, 73, 70, 56, 57, 97>>
WebmSig == <<26, 69, 223, 163>>
Riff == <<82, 73, 70, 70>>
Webp == <<87, 69, 66, 80>>
Ftyp == <<102, 116, 121, 112>>
EndMarker == <<73, 69, 78, 68>>

\* the loop over the offsets of an ftyp box (lines 155-160)
FindFtyp(bytes) ==
    LET last == IF Len(bytes) > 12 THEN Len(bytes) - 12 ELSE 0
        hits == {i \in 0..(last - 1) : SubStr(bytes, i + 5, i + 8) = Ftyp}
    IN  IF hits = {} THEN -1 ELSE CHOOSE i \in hits : \A j \in hits : i <= j

\* the payload picked by extract_payload_by_signature (lines 114-161):
\* [idx, ext, payload], or NoneV
PickedPng(bytes, i) ==
    LET e == FindSubslice(DropFirst(bytes, i), EndMarker)
        end == i + e + Len(EndMarker) + 4
    IN  IF e >= 0
        THEN [idx |-> i, ext |-> "png",
              payload |-> SubStr(bytes, i + 1, IF end < Len(bytes) THEN end ELSE Len(bytes))]
        ELSE [idx |-> i, ext |-> "png", payload |-> DropFirst(bytes, i)]

PickedFrom(bytes, i, ext) == [idx |-> i, ext |-> ext, payload |-> DropFirst(bytes, i)]

PickedRiff(bytes, i) ==
    LET probe_end == IF i + 64 < Len(bytes) THEN i + 64 ELSE Len(bytes)
    IN  IF FindSubslice(SubStr(bytes, i + 1, probe_end), Webp) >= 0
        THEN PickedFrom(bytes, i, "webp")
        ELSE IF FindFtyp(bytes) >= 0 THEN PickedFrom(bytes, FindFtyp(bytes), "mp4")
        ELSE NoneV

PickPayload(bytes) ==
    IF FindSubslice(bytes, PngSig) >= 0 THEN PickedPng(bytes, FindSubslice(bytes, PngSig))
    ELSE IF FindSubslice(bytes, JpgSig) >= 0
         THEN PickedFrom(bytes, FindSubslice(bytes, JpgSig), "jpg")
    ELSE IF FindSubslice(bytes, Gif89) >= 0
         THEN PickedFrom(bytes, FindSubslice(bytes, Gif89), "gif")
    ELSE IF FindSubslice(bytes, Gif87) >= 0
         THEN PickedFrom(bytes, FindSubslice(bytes, Gif87), "gif")
    ELSE IF FindSubslice(bytes, WebmSig) >= 0
         THEN PickedFrom(bytes, FindSubslice(bytes, WebmSig), "webm")
    ELSE IF FindSubslice(bytes, Riff) >= 0 THEN PickedRiff(bytes, FindSubslice(bytes, Riff))
    ELSE IF FindFtyp(bytes) >= 0 THEN PickedFrom(bytes, FindFtyp(bytes), "mp4")
    ELSE NoneV

\* a PNG chunk: length, type, data and a CRC, which the scan never reads
Be32(n) == <<0, 0, 0, n>>

Chunk(type, data) == Be32(Len(data)) \o type \o data \o <<1, 2, 3, 4>>

Ihdr == Chunk(<<73, 72, 68, 82>>, <<0, 0, 0, 1, 0, 0, 0, 1, 8, 0, 0, 0, 0>>)

Iend == Chunk(EndMarker, <<>>)

\* a tEXt chunk: keyword, a zero byte, the text
TextChunk(keyword) == Chunk(<<116, 69, 88, 116>>, keyword \o <<0>>)

Idat(data) == Chunk(<<73, 68, 65, 84>>, data)

\* the complete PNG files of the model: with or without a tEXt chunk, whose
\* keyword may be the word IEND, and with a few compressed streams
TextKeywords == {<<84>>, EndMarker}

IdatStreams == {<<120, 1>>, <<120, 73, 69>>}

CompletePngs ==
    {PngSig \o Ihdr \o Idat(d) \o Iend : d \in IdatStreams}
      \cup {PngSig \o Ihdr \o TextChunk(k) \o Idat(d) \o Iend :
               k \in TextKeywords, d \in IdatStreams}

\* the bytes before and after the PNG
MaxGarbage == 2

GarbageBytes == {0, 73, 137}

Garbage == UNION {[1..n -> GarbageBytes] : n \in 0..MaxGarbage}

\* files without a PNG signature
OtherFiles ==
    { <<>>, <<0, 0>>, <<0>> \o JpgSig \o <<0>>, Gif89 \o <<0>>, <<7>> \o Gif87,
      <<0>> \o WebmSig, Riff \o <<0, 0, 0, 0>> \o Webp, Riff \o <<0, 0>>,
      <<0, 0, 0, 24>> \o Ftyp \o <<105, 115, 111, 109, 0, 0>> }

InitTex ==
    /\ IdleVis
    /\ IdleGraph
    /\ IdlePlay
    /\ laws = Idle
    /\ bind = Idle
    /\ native = Idle
    /\ assets = Idle
    /\ pkg = Idle
    /\ audio = Idle
    /\ merge = Idle
    /\ norm = Idle
    /\ overlay = Idle
    /\ timeline = Idle
    /\ session = Idle
    /\ \/ \E before \in Garbage, png \in CompletePngs, after \in Garbage :
            tex = [phase |-> "file", bytes |-> before \o png \o after,
                   before |-> before, png |-> [bytes |-> png]]
       \/ \E bytes \in OtherFiles :
            tex = [phase |-> "file", bytes |-> bytes, before |-> <<>>, png |-> NoneV]

\* extract_payload_by_signature: the file may be unreadable and the proxy
\* may fail to be written
ExtractPayloadBySignature ==
    /\ tex.phase = "file"
    /\ \E io \in {"ok", "read_fails", "write_fails"} :
         tex' =
           IF io = "read_fails" THEN [tex EXCEPT !.phase = "failed"]
           ELSE IF PickPayload(tex.bytes) = NoneV
                THEN [phase |-> "returned", bytes |-> tex.bytes, before |-> tex.before,
                      png |-> tex.png, written |-> NoneV]
           ELSE IF io = "write_fails" THEN [tex EXCEPT !.phase = "failed"]
           ELSE [phase |-> "returned", bytes |-> tex.bytes, before |-> tex.before,
                 png |-> tex.png,
                 written |-> [ext |-> PickPayload(tex.bytes).ext,
                              payload |-> PickPayload(tex.bytes).payload]]
    /\ UNCHANGED <<visVars, graphVars, playVars, callVars, norm, overlay, timeline, session>>

NextTex == ExtractPayloadBySignature

SpecTex == InitTex /\ [][NextTex]_vars

\* C25: for a file made of arbitrary bytes, a complete PNG and optional
\* trailing bytes, the signature scan returns exactly the bytes of that PNG.
C25_ScanReturnsExactPng ==
    tex.phase = "returned" /\ tex.png # NoneV =>
        /\ tex.written # NoneV
        /\ tex.written.ext = "png"
        /\ tex.written.payload = tex.png.bytes

(***************************************************************************)
(* Part 16. Claims about the processes of gpu-play and of the audio        *)
(* capture.                                                                *)
(***************************************************************************)
\* invocation i returns in this step
Returns(i) == pInv[i].pc \notin {"idle", "done"} /\ pInv'[i].pc = "done"

\* C26 as stated: whenever a gpu-play invocation that is not a dry run
\* returns success, on every path including the fallback after the transcoder
\* exited during its startup window, the playback surface has been launched
\* with the returned final entry before the invocation returns.
C26_SuccessMeansSurfaceLaunched ==
    [][\A i \in Invocations :
          (Returns(i) /\ ~pInv[i].args.dry_run /\ pInv'[i].result = "ok")
             => pSurface' = pInv'[i].final_entry]_vars

\* invocation i takes a step in this transition
Steps(i) == pInv'[i] # pInv[i]

\* invocation i is a dry run, before or after the step that starts it
IsDryRun(i) == IF pInv[i].pc = "idle" THEN pInv'[i].args.dry_run ELSE pInv[i].args.dry_run

\* C29 as stated: an invocation with dry_run = true neither terminates nor
\* spawns any process, leaves the playback surface running and changes no
\* PID file.
C29_DryRunTouchesNothing ==
    [][\A i \in Invocations :
          (Steps(i) /\ IsDryRun(i)) =>
             /\ pProcs' = pProcs
             /\ pPidFile' = pPidFile
             /\ pSurface' = pSurface]_vars

\* invocation i sends SIGTERM to the PID it read from the transcoder PID file
KillsRecorded(i) == pInv[i].pc = "kill" /\ pInv'[i].pc # "kill" /\ pInv[i].pid # NoPid

\* invocation i sends SIGTERM to the PID it read from the text-refresh PID file
TextKillsRecorded(i) ==
    pInv[i].pc = "text_kill" /\ pInv'[i].pc # "text_kill" /\ pInv[i].text_pid # NoPid

\* p is a running child of the kind, started by this tool
RunningChild(p, kind) == pProcs[p].st = "running" /\ pProcs[p].kind = kind

\* C28 as stated: the PID a re-invocation reads from a PID file and signals
\* always belongs to a still-running child this tool started for the bundle,
\* and while no invocation runs a PID file never names a child that has
\* exited.
C28_SignalledPidIsRunningChild ==
    /\ [][\A i \in Invocations :
             /\ KillsRecorded(i) => RunningChild(pInv[i].pid, "transcoder")
             /\ TextKillsRecorded(i) => RunningChild(pInv[i].text_pid, "text")]_vars
    /\ []((\A i \in Invocations : pInv[i].pc \in {"idle", "done"})
            => /\ pPidFile.transcoder # NoPid
                    => RunningChild(pPidFile.transcoder, "transcoder")
               /\ pPidFile.text # NoPid => RunningChild(pPidFile.text, "text"))

\* lib.rs 239-249 for invocations that run side by side in live-transcoder
\* mode: native-realtime transport, no dry run, no clock overlay
StartConcurrent(i) ==
    /\ pInv[i].pc = "idle"
    /\ \E require_native \in BOOLEAN :
          Step(i, [IdleInvocation EXCEPT
                      !.pc = "prepare",
                      !.args = [transport |-> "native-realtime",
                                require_native |-> require_native,
                                dry_run |-> FALSE, clock_overlay |-> FALSE]],
               pProcs, pLastPid, pPidFile, NoStr)

NextRace ==
    \/ \E i \in Invocations : StartConcurrent(i)
    \/ \E i \in Invocations : Prepare(i)
    \/ \E i \in Invocations : BuildPlan(i)
    \/ \E i \in Invocations : BakeProxy(i)
    \/ \E i \in Invocations : ReadPidFile(i)
    \/ \E i \in Invocations : KillRecorded(i)
    \/ \E i \in Invocations : SpawnTranscoder(i)
    \/ \E i \in Invocations : WritePidFile(i)
    \/ \E i \in Invocations : ProbeTranscoder(i)
    \/ \E i \in Invocations : FallbackBake(i)
    \/ \E i \in Invocations : WriteManifest(i)
    \/ \E i \in Invocations : LaunchSurface(i)
    \/ \E p \in Pids : ChildExits(p)

SpecRace == InitPlay /\ [][NextRace]_vars

\* the transcoder children that run and have not been sent SIGTERM
AliveTranscoders ==
    {p \in Pids : RunningChild(p, "transcoder") /\ ~pProcs[p].signalled}

\* C27 as stated: once two concurrent invocations in live-transcoder mode
\* have both finished, at most one transcoder child is still alive and the
\* PID file names it.
C27_AtMostOneTranscoderAlive ==
    (\A i \in Invocations : pInv[i].pc = "done") =>
        /\ Cardinality(AliveTranscoders) <= 1
        /\ AliveTranscoders \subseteq {pPidFile.transcoder}

\* C30 as stated: on every return path of the capture after the child has
\* been spawned, the child has been killed and waited for.
C30_ChildReapedOnEveryReturn ==
    (audio.phase = "returned" /\ audio.child # "none") => audio.child = "reaped"

====
